---------------------------- MODULE Spec2Model ----------------------------
(***************************************************************************)
(* Model of the data-biblia-chat service: the chunker of audio_utils.js,   *)
(* the chapter-text route and the audio route of biblia.js, the process-   *)
(* wide BUILD_ID token, the S3 object cache and the local temp directory.  *)
(*                                                                         *)
(* Text is a sequence of one-character strings.  Every await of the code   *)
(* is a step of its own; the outcome of a call that leaves the process     *)
(* (HTTP, S3, the file system, ffmpeg) is chosen with \E.                  *)
(***************************************************************************)
EXTENDS Integers, Sequences, FiniteSets, TLC

(***************************************************************************)
(* Bounds of the model.                                                    *)
(***************************************************************************)
\* longest text handed to the chunker in SpecChunk
MaxTextLen == 5
\* largest limit handed to the chunker in SpecChunk
MaxLimit == 3
\* most verses in a chapter the upstream serves (chunks = verses + 1)
MaxVerses == 2
\* number of BUILD_ID epochs of the upstream
MaxBuild == 2
\* chapter-text requests one client issues in sequence
MaxTextCalls == 2
\* audio requests one client issues in sequence
MaxAudioCalls == 1

\* requests a client of the version-info route sends one after the other
MaxVersionCalls == 2
MaxSpans == 2
MaxElements == 3

(***************************************************************************)
(* Program constants.                                                      *)
(***************************************************************************)
\* audio_utils.js:26
SPEECHIFY_CHAR_LIMIT == 10

(***************************************************************************)
(* Characters and strings.                                                 *)
(***************************************************************************)
Letters == {"a", "b"}

Whitespace == {" ", "\n"}

\* the character class \s of the regular expression in text.split(/\s+/)
IsSpace(c) == c \in Whitespace

\* n copies of character c
Rep(c, n) == [i \in 1..n |-> c]

\* String.prototype.substring(from) and substring(0, to), 0-based as in JS
Substring(s, from, to) == SubSeq(s, from + 1, IF to < Len(s) THEN to ELSE Len(s))

RECURSIVE SkipSpaces(_, _)
\* index of the first non-whitespace character of t at or after i
SkipSpaces(t, i) ==
    IF i <= Len(t) /\ IsSpace(t[i]) THEN SkipSpaces(t, i + 1) ELSE i

RECURSIVE SplitFrom(_, _, _, _)
\* text.split(/\s+/) from index i on: cur is the token being read, acc the
\* tokens already closed.  A run of whitespace closes the token before it,
\* so leading or trailing whitespace yields an empty token, as in JS.
SplitFrom(t, i, cur, acc) ==
    IF i > Len(t) THEN Append(acc, cur)
    ELSE IF IsSpace(t[i]) THEN SplitFrom(t, SkipSpaces(t, i), <<>>, Append(acc, cur))
    ELSE SplitFrom(t, i + 1, Append(cur, t[i]), acc)

\* text.split(/\s+/)
SplitWhitespace(t) == SplitFrom(t, 1, <<>>, <<>>)

RECURSIVE SliceWord(_, _)
\* the while loop of lines 43-47: slices of limit characters, the last one
\* holding the remainder
SliceWord(word, limit) ==
    IF Len(word) = 0 THEN <<>>
    ELSE <<Substring(word, 0, limit)>> \o SliceWord(Substring(word, limit, Len(word)), limit)

\* a bug: a word fits only when it leaves room to spare
ChunkStepStrict(st, word, limit) ==
    IF Len(st.currentChunk) = 0 /\ Len(word) > limit
    THEN [chunks |-> st.chunks \o SliceWord(word, limit), currentChunk |-> <<>>]
    ELSE IF (IF Len(st.currentChunk) > 0 THEN Len(st.currentChunk) + 1 ELSE 0) + Len(word) < limit
    THEN [chunks |-> st.chunks,
          currentChunk |-> st.currentChunk
                             \o (IF Len(st.currentChunk) > 0 THEN <<" ">> ELSE <<>>) \o word]
    ELSE [chunks |-> Append(st.chunks, st.currentChunk), currentChunk |-> word]

\* a bug: the separator is counted for the first word of a chunk as well
ChunkStepCountsSeparator(st, word, limit) ==
    IF Len(st.currentChunk) = 0 /\ Len(word) > limit
    THEN [chunks |-> st.chunks \o SliceWord(word, limit), currentChunk |-> <<>>]
    ELSE IF Len(st.currentChunk) + 1 + Len(word) <= limit
    THEN [chunks |-> st.chunks,
          currentChunk |-> st.currentChunk
                             \o (IF Len(st.currentChunk) > 0 THEN <<" ">> ELSE <<>>) \o word]
    ELSE [chunks |-> Append(st.chunks, st.currentChunk), currentChunk |-> word]

\* one iteration of the for loop of lines 39-55 on the state
\* [chunks, currentChunk]
ChunkStep(st, word, limit) ==
    IF Len(st.currentChunk) = 0 /\ Len(word) > limit
    THEN [chunks |-> st.chunks \o SliceWord(word, limit), currentChunk |-> <<>>]
    ELSE IF (IF Len(st.currentChunk) > 0 THEN Len(st.currentChunk) + 1 ELSE 0) + Len(word) <= limit
    THEN [chunks |-> st.chunks,
          currentChunk |-> st.currentChunk
                             \o (IF Len(st.currentChunk) > 0 THEN <<" ">> ELSE <<>>) \o word]
    ELSE [chunks |-> Append(st.chunks, st.currentChunk), currentChunk |-> word]

RECURSIVE ChunkLoop(_, _, _, _)
\* the for loop over the words, from word i on
ChunkLoop(st, words, i, limit) ==
    IF i > Len(words) THEN st
    ELSE ChunkLoop(ChunkStep(st, words[i], limit), words, i + 1, limit)

\* a bug: the last chunk is pushed even when it is empty
SplitAlwaysPush(t, limit) ==
    LET st == ChunkLoop([chunks |-> <<>>, currentChunk |-> <<>>],
                        SplitWhitespace(t), 1, limit)
    IN  Append(st.chunks, st.currentChunk)

\* splitTextIntoChunks(text, limit)
SplitTextIntoChunks(t, limit) ==
    LET st == ChunkLoop([chunks |-> <<>>, currentChunk |-> <<>>],
                        SplitWhitespace(t), 1, limit)
    IN  IF Len(st.currentChunk) > 0 THEN Append(st.chunks, st.currentChunk)
        ELSE st.chunks


(***************************************************************************)
(* State.                                                                  *)
(***************************************************************************)
VARIABLES
    inText,          \* chunker under test: its text argument
    inLimit,         \* chunker under test: its limit argument
    outChunks,       \* chunker under test: the returned array
    splitDone,       \* chunker under test: whether it has been called
    upstreamBuild,   \* the BUILD_ID bible.com currently serves
    currentBuildId,  \* biblia.js:46, 0 is null
    s3,              \* the bucket: object key -> stored object
    tmpFiles,        \* os.tmpdir(): path -> content
    textApi,         \* what answers on localhost:1020 for the audio route
    treq,            \* chapter-text requests, one per client
    areq,            \* audio requests, one per client
    vreq,            \* version-info requests, one per client
    html,            \* parser under test: the children of div.chapter
    parsedContent,   \* parser under test: the content array it returned
    finalContent,    \* parser under test: the flattened content of the route
    fetchedText,     \* parser under test: the narration text of the content
    parsePc          \* parser under test: "html", "parsed", "flattened", "narrated"

chunkVars == <<inText, inLimit, outChunks, splitDone>>

parseVars == <<html, parsedContent, finalContent, fetchedText, parsePc>>

sysVars == <<upstreamBuild, currentBuildId, s3, tmpFiles, textApi, treq, areq, vreq>>

vars == <<inText, inLimit, outChunks, splitDone, upstreamBuild, currentBuildId, s3, tmpFiles, textApi, treq, areq, vreq, html, parsedContent, finalContent, fetchedText, parsePc>>

(***************************************************************************)
(* Tables and request parameters.                                          *)
(***************************************************************************)
\* the keys of bibleVersionMap that the requests of the model use
bibleVersionMap == {"RVR1960"}

\* the keys of langCodeMap that the requests of the model use
langCodeMap == {"es"}

\* :bible_abbreviation values a client sends
Abbreviations == {"RVR1960", "XXX"}

\* :lang values a client sends
Langs == {"es", "xx"}

\* bible_lang values a client sends to the audio route
AudioLangs == {"es", "ES", "en"}

\* :bible_book values a client sends
Books == {"GEN", "gen"}

\* :bible_chapter values a client sends
ChapterNumbers == {"1"}

\* bible_chapter values of the JSON body of an audio request: the string
\* "1" and the number 1, written "#1"
AudioChapters == {"1", "#1"}

\* bible_chapter.toString() of line 528, and the chapter as a template
\* literal renders it
ChapterToString(c) == IF c = "#1" THEN "1" ELSE c

\* String.prototype.toUpperCase on the book codes of the model
ToUpperCase(b) == IF b = "gen" THEN "GEN" ELSE b

\* String.prototype.toLowerCase on the language codes of the model
ToLowerCase(l) == IF l = "ES" THEN "es" ELSE l

NoRef == [lang |-> "", abbr |-> "", book |-> "", chapter |-> ""]

\* the reference of the objects the bucket may hold from earlier runs
StoredRef == [lang |-> "es", abbr |-> "RVR1960", book |-> "GEN", chapter |-> "1"]

\* the fields in which two references differ
Differing(r1, r2) == {f \in {"lang", "abbr", "book", "chapter"} : r1[f] # r2[f]}

\* the references a client of the chapter-text route asks for: es/RVR1960/
\* GEN/1 and the references that depart from it in one parameter
TextRequests ==
    {ref \in [lang : Langs, abbr : Abbreviations, book : Books, chapter : ChapterNumbers] :
        Cardinality(Differing(ref, StoredRef)) <= 1}

\* the s3Key of the chapter-text route
TextKey(ref) == <<"text", ref.abbr, ToUpperCase(ref.book), ref.chapter>>

\* a bug: the key is written with the book as given
TextWriteKeyAsGiven(ref) == <<"text", ref.abbr, ref.book, ref.chapter>>

\* the s3Key the chapter-text route writes after a successful fetch
TextWriteKey(ref) == <<"text", ref.abbr, ToUpperCase(ref.book), ref.chapter>>

\* a bug: the key is built from the fields as given
AudioKeyAsGiven(ref) == <<"audio", ref.abbr, ref.book, ref.chapter>>

\* the s3Key of the audio route
AudioKey(ref) == <<"audio", ref.abbr, ToUpperCase(ref.book), ChapterToString(ref.chapter)>>

\* the parameters of the URL of line 553 as the text route receives them
UrlRef(ref) == [ref EXCEPT !.chapter = ChapterToString(@)]

NoKey == <<>>

(***************************************************************************)
(* Chapters: what the upstream serves and the route projects.              *)
(***************************************************************************)
VerseLetters == <<"a", "b", "c", "d", "e", "f">>

Item(type, txt) == [type |-> type, text |-> txt]

\* the simplifiedResponse for an upstream chapter of k verses: a heading, a
\* reference and k verses of eight letters each
Chapter(k) ==
    [kind |-> "chapter",
     title |-> <<"G">>,
     content |-> <<Item("heading", <<"I", "n">>), Item("reference", <<"J", "n">>)>>
                   \o [i \in 1..k |-> Item("verse", Rep(VerseLetters[i], 8))]]

\* the simplifiedResponse when parseBibleHtmlToJson threw: content is the
\* error object, not an array
ParseErrorChapter == [kind |-> "parseError", title |-> <<"G">>, content |-> <<>>]

NoChapter == [kind |-> "none", title |-> <<>>, content |-> <<>>]

\* the chapters served: one without verses, one of MaxVerses verses, and one
\* whose markup the parser rejects
Chapters == {Chapter(0), Chapter(MaxVerses), ParseErrorChapter}

(***************************************************************************)
(* The object cache.  checkJsonExists and getJsonFromS3 are imported from  *)
(* ./utils, which is not among the sources: exists(key) and get(key) of    *)
(* the Content Cache, either of which may fail with a storage error.       *)
(***************************************************************************)
\* outcomes of checkJsonExists(key)
CheckJsonExists(key) == {IF key \in DOMAIN s3 THEN "hit" ELSE "miss", "error"}

\* outcomes of getJsonFromS3(key)
GetJsonFromS3(key) == IF key \in DOMAIN s3 THEN {"ok", "error"} ELSE {"error"}

\* f with x mapped to v
Put(f, x, v) == [y \in DOMAIN f \cup {x} |-> IF y = x THEN v ELSE f[y]]

\* f without x
Remove(f, x) == [y \in DOMAIN f \ {x} |-> f[y]]

\* fs.unlink(path).catch(...): removes the file; a missing file is logged
Unlink(files, path) == IF path \in DOMAIN files THEN Remove(files, path) ELSE files

RECURSIVE UnlinkAll(_, _)
\* Promise.all(paths.map(p => fs.unlink(p).catch(...)))
UnlinkAll(files, paths) ==
    IF paths = <<>> THEN files ELSE UnlinkAll(Unlink(files, Head(paths)), Tail(paths))

\* outcomes of uploadToS3(key, path): readFile fails when the file is gone
UploadOutcomes(path) == IF path \in DOMAIN tmpFiles THEN {"ok", "error"} ELSE {"error"}

\* the bucket after uploadToS3(key, path, ...) with the given outcome
UploadToS3Bucket(key, path, outcome) ==
    IF outcome = "ok" THEN Put(s3, key, tmpFiles[path]) ELSE s3

\* a bug: the local file is left in place
UploadToS3KeepsFile(path) == tmpFiles

\* the temp directory after uploadToS3: the finally block unlinks the file
UploadToS3Files(path) == Unlink(tmpFiles, path)

\* the public URL uploadToS3 returns and the audio route builds on a hit
PublicUrl(key) == <<"https://s3.redmasiva.ai/file/data-biblia-chat">> \o key

(***************************************************************************)
(* The chapter-text route, GET /:lang/:bible_abbreviation/:bible_book/     *)
(* :bible_chapter (biblia.js:337-492).                                     *)
(***************************************************************************)
\* external clients of the chapter-text route
TextClients == {"t1"}

\* the request the audio route sends to localhost:1020
InternalText == "ti"

\* two clients whose requests overlap
ConcurrentClients == {"t1", "t2"}

TextProcs == TextClients \cup ConcurrentClients \cup {InternalText}

NoTextResp == [status |-> 0, kind |-> "none", chapter |-> NoChapter, attempt |-> 0, cause |-> "none"]

TextResp(status, kind, chapter, attempt, cause) ==
    [status |-> status, kind |-> kind, chapter |-> chapter, attempt |-> attempt, cause |-> cause]

NoSummary == [ref |-> NoRef, status |-> 0, nChapter |-> 0, wrote |-> FALSE, held |-> FALSE]

\* what is remembered of a client's previous request
Summary(r) ==
    [ref |-> r.ref, status |-> r.resp.status, nChapter |-> r.nChapter,
     wrote |-> r.wrote, held |-> r.held]

\* a request record.  pc is the await the handler is suspended at; ref,
\* attempt, buildId and chapter are the handler's locals; the other fields
\* record what the request has done.
TextIdle ==
    [pc |-> "idle", ref |-> NoRef, attempt |-> 0, buildId |-> 0, chapter |-> NoChapter,
     resp |-> NoTextResp, nResp |-> 0,
     nLanding |-> 0, nChapter |-> 0, nReplace |-> 0, first |-> "none", last |-> "none",
     held |-> FALSE, check |-> "none", read |-> "none", wrote |-> FALSE,
     calls |-> 0, prev |-> NoSummary]

\* res.status(status).json(...) / res.json(...), then return
TextRespond(r, status, kind, chapter, cause) ==
    [r EXCEPT !.pc = "done", !.nResp = @ + 1,
              !.resp = TextResp(status, kind, chapter, r.attempt, cause)]

\* lines 338-350: the lookup in bibleVersionMap and the 404 for a miss
TextValidate(r) ==
    IF r.ref.abbr \notin bibleVersionMap
    THEN TextRespond(r, 404, "error", NoChapter, "abbreviation not found")
    ELSE [r EXCEPT !.pc = "cacheCheck", !.attempt = 1]

\* a new request with the given parameters, up to the first await
TextBegin(r, ref) ==
    TextValidate([TextIdle EXCEPT !.ref = ref, !.calls = r.calls + 1,
                                  !.prev = Summary(r),
                                  !.held = TextKey(ref) \in DOMAIN s3])

\* a client sends GET /:lang/:abbr/:book/:chapter
TextStart(p) ==
    /\ treq[p].pc \in {"idle", "done", "exited"}
    /\ treq[p].calls < MaxTextCalls
    /\ \E ref \in TextRequests :
          treq' = [treq EXCEPT ![p] = TextBegin(@, ref)]
    /\ UNCHANGED <<chunkVars, parseVars, vreq, upstreamBuild, currentBuildId, s3, tmpFiles, textApi, areq>>

\* a bug: the result of the existence check is not used
TextAfterCheckIgnored(r, o) == [r EXCEPT !.check = o, !.pc = "resolve"]

\* lines 354-364, await checkJsonExists(s3Key): a hit goes on to read the
\* object, a miss or a storage error to the fetch loop
TextAfterCheck(r, o) ==
    [r EXCEPT !.check = o, !.pc = IF o = "hit" THEN "cacheRead" ELSE "resolve"]

TextCacheCheck(p) ==
    /\ treq[p].pc = "cacheCheck"
    /\ \E o \in CheckJsonExists(TextKey(treq[p].ref)) :
          treq' = [treq EXCEPT ![p] = TextAfterCheck(@, o)]
    /\ UNCHANGED <<chunkVars, parseVars, vreq, upstreamBuild, currentBuildId, s3, tmpFiles, textApi, areq>>

\* lines 358-364, await getJsonFromS3(s3Key): the object is the response; a
\* storage error is caught and the fetch loop is entered
TextAfterRead(r, o) ==
    IF o = "ok"
    THEN TextRespond([r EXCEPT !.read = o], 200, "cached", s3[TextKey(r.ref)].chapter, "none")
    ELSE [r EXCEPT !.read = o, !.pc = "resolve"]

TextCacheRead(p) ==
    /\ treq[p].pc = "cacheRead"
    /\ \E o \in GetJsonFromS3(TextKey(treq[p].ref)) :
          treq' = [treq EXCEPT ![p] = TextAfterRead(@, o)]
    /\ UNCHANGED <<chunkVars, parseVars, vreq, upstreamBuild, currentBuildId, s3, tmpFiles, textApi, areq>>

\* a bug: the refresh is forced on every 404, whatever the attempt
TextCatchAnyAttempt(r, status, cause) ==
    IF status = 404
    THEN [r EXCEPT !.pc = "refresh", !.nLanding = @ + 1]
    ELSE TextRespond(r, IF status # 0 THEN status ELSE 500, "error", NoChapter, cause)

\* a bug: the refresh is forced after every error of the first attempt
TextCatchAnyError(r, status, cause) ==
    IF r.attempt = 1
    THEN [r EXCEPT !.pc = "refresh", !.nLanding = @ + 1]
    ELSE TextRespond(r, IF status # 0 THEN status ELSE 500, "error", NoChapter, cause)

\* a bug: after a failed retry the error of the first attempt is sent
TextCatchFirstError(r, status, cause) ==
    IF r.attempt = 1 /\ status = 404
    THEN [r EXCEPT !.pc = "refresh", !.nLanding = @ + 1]
    ELSE IF r.attempt = 2
    THEN [TextRespond(r, 404, "error", NoChapter, r.first) EXCEPT !.resp.attempt = 1]
    ELSE TextRespond(r, IF status # 0 THEN status ELSE 500, "error", NoChapter, cause)

\* lines 466-489, the catch block: status is error.response.status, 0 when
\* the error carries no response
TextCatch(r, status, cause) ==
    IF r.attempt = 1 /\ status = 404
    THEN [r EXCEPT !.pc = "refresh", !.nLanding = @ + 1]
    ELSE TextRespond(r, IF status # 0 THEN status ELSE 500, "error", NoChapter, cause)

\* outcomes of fetchBuildId: the BUILD_ID, an HTTP error or no response of
\* axios.get("https://www.bible.com/"), or a page without the pattern
LandingOutcomes == {"ok", "h404", "net", "nomatch"}

ErrorStatus(o) == IF o = "h404" THEN 404 ELSE IF o = "h503" THEN 503 ELSE 0

\* a bug: the landing page is fetched whether or not a token is stored
TextGetBuildIdAlwaysFetch(p) ==
    /\ treq[p].pc = "resolve"
    /\ treq' = [treq EXCEPT ![p] =
                  IF @.attempt > 2
                  THEN [@ EXCEPT !.pc = "exited"]
                  ELSE [@ EXCEPT !.pc = "landing", !.nLanding = @ + 1]]
    /\ UNCHANGED <<chunkVars, parseVars, vreq, upstreamBuild, currentBuildId, s3, tmpFiles, textApi, areq>>

\* lines 367-369 and 73-78, the loop test and getBuildId(): the stored
\* token when there is one, else a landing fetch is issued; the loop, and
\* with it the handler, ends once attempt exceeds 2
TextGetBuildId(p) ==
    /\ treq[p].pc = "resolve"
    /\ treq' = [treq EXCEPT ![p] =
                  IF @.attempt > 2
                  THEN [@ EXCEPT !.pc = "exited"]
                  ELSE IF currentBuildId # 0
                  THEN [@ EXCEPT !.buildId = currentBuildId, !.pc = "fetch"]
                  ELSE [@ EXCEPT !.pc = "landing", !.nLanding = @ + 1]]
    /\ UNCHANGED <<chunkVars, parseVars, vreq, upstreamBuild, currentBuildId, s3, tmpFiles, textApi, areq>>

\* line 75: the landing fetch of getBuildId returns or throws
TextLandingDone(p) ==
    /\ treq[p].pc = "landing"
    /\ \E o \in LandingOutcomes :
          IF o = "ok"
          THEN /\ currentBuildId' = upstreamBuild
               /\ treq' = [treq EXCEPT ![p] = [@ EXCEPT !.buildId = upstreamBuild, !.pc = "fetch"]]
          ELSE /\ currentBuildId' = currentBuildId
               /\ treq' = [treq EXCEPT ![p] = TextCatch(@, ErrorStatus(o), o)]
    /\ UNCHANGED <<chunkVars, parseVars, vreq, upstreamBuild, s3, tmpFiles, textApi, areq>>

\* outcomes of the chapter fetch of line 375 for a URL built with buildId:
\* a chapter, a body without pageProps, an HTTP error or no response at all;
\* a URL with another BUILD_ID than the upstream's never yields a chapter
FetchOutcomes(buildId) ==
    IF buildId = upstreamBuild THEN {"ok", "shape", "h404", "h503", "net"}
    ELSE {"h404", "h503", "net"}

\* lines 375-464: the response of the chapter fetch arrives
TextChapterFetched(p) ==
    /\ treq[p].pc = "fetch"
    /\ \E o \in FetchOutcomes(treq[p].buildId) :
          LET r == [treq[p] EXCEPT !.nChapter = @ + 1,
                                   !.first = IF treq[p].attempt = 1 THEN o ELSE @,
                                   !.last = o]
          IN  IF o = "ok"
              THEN \E ch \in Chapters :
                      treq' = [treq EXCEPT ![p] = [r EXCEPT !.chapter = ch, !.pc = "built"]]
              ELSE treq' = [treq EXCEPT ![p] = TextCatch(r, ErrorStatus(o), o)]
    /\ UNCHANGED <<chunkVars, parseVars, vreq, upstreamBuild, currentBuildId, s3, tmpFiles, textApi, areq>>

\* a bug: the refreshed token is not stored
TextRefreshDoneNotStored(p) ==
    /\ treq[p].pc = "refresh"
    /\ \E o \in LandingOutcomes :
          IF o = "ok"
          THEN /\ currentBuildId' = currentBuildId
               /\ treq' = [treq EXCEPT ![p] =
                             [@ EXCEPT !.nReplace = @ + 1, !.attempt = @ + 1, !.pc = "resolve"]]
          ELSE /\ currentBuildId' = currentBuildId
               /\ treq' = [treq EXCEPT ![p] =
                             TextRespond(@, 500, "error", NoChapter, "refresh failed")]
    /\ UNCHANGED <<chunkVars, parseVars, vreq, upstreamBuild, s3, tmpFiles, textApi, areq>>

\* lines 472-482: the landing fetch of the forced refresh returns (the
\* token is replaced, attempt++ and the loop runs again) or throws (500)
TextRefreshDone(p) ==
    /\ treq[p].pc = "refresh"
    /\ \E o \in LandingOutcomes :
          IF o = "ok"
          THEN /\ currentBuildId' = upstreamBuild
               /\ treq' = [treq EXCEPT ![p] =
                             [@ EXCEPT !.nReplace = @ + 1, !.attempt = @ + 1, !.pc = "resolve"]]
          ELSE /\ currentBuildId' = currentBuildId
               /\ treq' = [treq EXCEPT ![p] =
                             TextRespond(@, 500, "error", NoChapter, "refresh failed")]
    /\ UNCHANGED <<chunkVars, parseVars, vreq, upstreamBuild, s3, tmpFiles, textApi, areq>>

\* the path of the temp file of line 450, a fresh uuid per request
JsonPath(p, r) == <<"json", p, r.calls>>

\* the JSON document {data: simplifiedResponse}
JsonFile(ch) == [kind |-> "json", chapter |-> ch, audio |-> <<>>, owner |-> "none"]

\* a bug: a failed write of the temp file reaches the catch block of the loop
TextCacheWriteThrows(p) ==
    /\ treq[p].pc = "built"
    /\ \E o \in {"ok", "error"} :
          IF o = "ok"
          THEN /\ tmpFiles' = Put(tmpFiles, JsonPath(p, treq[p]), JsonFile(treq[p].chapter))
               /\ treq' = [treq EXCEPT ![p] = [@ EXCEPT !.pc = "upload"]]
          ELSE /\ tmpFiles' = tmpFiles
               /\ treq' = [treq EXCEPT ![p] = TextRespond(@, 500, "error", NoChapter, "cache write")]
    /\ UNCHANGED <<chunkVars, parseVars, vreq, upstreamBuild, currentBuildId, s3, textApi, areq>>

\* lines 448-451: fs.writeFile of the temp file; a failure is caught and the
\* chapter is sent all the same
TextCacheWrite(p) ==
    /\ treq[p].pc = "built"
    /\ \E o \in {"ok", "error"} :
          IF o = "ok"
          THEN /\ tmpFiles' = Put(tmpFiles, JsonPath(p, treq[p]), JsonFile(treq[p].chapter))
               /\ treq' = [treq EXCEPT ![p] = [@ EXCEPT !.pc = "upload"]]
          ELSE /\ tmpFiles' = tmpFiles
               /\ treq' = [treq EXCEPT ![p] = TextRespond(@, 200, "fresh", @.chapter, "none")]
    /\ UNCHANGED <<chunkVars, parseVars, vreq, upstreamBuild, currentBuildId, s3, textApi, areq>>

\* lines 452-459: uploadToS3 of the temp file, then res.json({data: ...});
\* a failed upload is caught
TextUpload(p) ==
    /\ treq[p].pc = "upload"
    /\ \E o \in UploadOutcomes(JsonPath(p, treq[p])) :
          /\ s3' = UploadToS3Bucket(TextWriteKey(treq[p].ref), JsonPath(p, treq[p]), o)
          /\ tmpFiles' = UploadToS3Files(JsonPath(p, treq[p]))
          /\ treq' = [treq EXCEPT ![p] =
                        TextRespond([@ EXCEPT !.wrote = (o = "ok")], 200, "fresh", @.chapter, "none")]
    /\ UNCHANGED <<chunkVars, parseVars, vreq, upstreamBuild, currentBuildId, textApi, areq>>

\* a step of the handler of request p after its start
TextStep(p) ==
    \/ TextCacheCheck(p)
    \/ TextCacheRead(p)
    \/ TextGetBuildId(p)
    \/ TextLandingDone(p)
    \/ TextChapterFetched(p)
    \/ TextRefreshDone(p)
    \/ TextCacheWrite(p)
    \/ TextUpload(p)

\* bible.com deploys a new build: the BUILD_ID in its addresses changes
Rotate ==
    /\ upstreamBuild < MaxBuild
    /\ upstreamBuild' = upstreamBuild + 1
    /\ UNCHANGED <<chunkVars, parseVars, vreq, currentBuildId, s3, tmpFiles, textApi, treq, areq>>

(***************************************************************************)
(* The version-info route, GET /:lang/:bible_abbreviation                  *)
(* (biblia.js:651-770).                                                    *)
(***************************************************************************)
\* clients of the version-info route
VersionClients == {"v1"}

\* the s3Key the handler checks and reads on entry (line 667)
VersionKey(lang, abbr) == <<"versions", lang, abbr>>

\* the s3Key the handler uploads to after a successful fetch (line 737)
VersionWriteKey(lang, abbr) == <<"versions", abbr>>

\* the JSON document {data: versionData}
VersionFile == [kind |-> "version", chapter |-> NoChapter, audio |-> <<>>, owner |-> "none"]

\* the path of the temp file of line 738, a fresh uuid per request
VersionPath(v, r) == <<"vjson", v, r.calls>>

NoVersionSummary == [lang |-> "", abbr |-> "", status |-> 0, wrote |-> FALSE]

\* a request record.  pc is the await the handler is suspended at; lang,
\* abbr, attempt and buildId are the handler's locals; the other fields
\* record what the request has done.
VersionIdle ==
    [pc |-> "idle", lang |-> "", abbr |-> "", attempt |-> 0, buildId |-> 0,
     status |-> 0, kind |-> "none", nResp |-> 0, nLanding |-> 0, nFetch |-> 0,
     check |-> "none", read |-> "none", wrote |-> FALSE,
     calls |-> 0, prev |-> NoVersionSummary]

\* res.status(status).json(...) / res.json(...), then return
VersionRespond(r, status, kind) ==
    [r EXCEPT !.pc = "done", !.nResp = @ + 1, !.status = status, !.kind = kind]

\* lines 655-661: the lookup in bibleVersionMap and the 404 for a miss
VersionValidate(r) ==
    IF r.abbr \notin bibleVersionMap
    THEN VersionRespond(r, 404, "error")
    ELSE [r EXCEPT !.pc = "cacheCheck", !.attempt = 1]

\* a client sends GET /:lang/:abbr
VersionStart(v) ==
    /\ vreq[v].pc \in {"idle", "done", "exited"}
    /\ vreq[v].calls < MaxVersionCalls
    /\ \E lang \in Langs, abbr \in Abbreviations :
          vreq' = [vreq EXCEPT ![v] =
                     VersionValidate([VersionIdle EXCEPT
                         !.lang = lang, !.abbr = abbr, !.calls = vreq[v].calls + 1,
                         !.prev = [lang |-> vreq[v].lang, abbr |-> vreq[v].abbr,
                                   status |-> vreq[v].status, wrote |-> vreq[v].wrote]])]
    /\ UNCHANGED <<chunkVars, parseVars, upstreamBuild, currentBuildId, s3, tmpFiles, textApi, treq, areq>>

\* lines 668-678, await checkJsonExists(s3Key): a hit goes on to read the
\* object, a miss or a storage error to the fetch loop
VersionCacheCheck(v) ==
    /\ vreq[v].pc = "cacheCheck"
    /\ \E o \in CheckJsonExists(VersionKey(vreq[v].lang, vreq[v].abbr)) :
          vreq' = [vreq EXCEPT ![v] =
                     [@ EXCEPT !.check = o, !.pc = IF o = "hit" THEN "cacheRead" ELSE "resolve"]]
    /\ UNCHANGED <<chunkVars, parseVars, upstreamBuild, currentBuildId, s3, tmpFiles, textApi, treq, areq>>

\* lines 672-678, await getJsonFromS3(s3Key): the object is the response; a
\* storage error is caught and the fetch loop is entered
VersionCacheRead(v) ==
    /\ vreq[v].pc = "cacheRead"
    /\ \E o \in GetJsonFromS3(VersionKey(vreq[v].lang, vreq[v].abbr)) :
          vreq' = [vreq EXCEPT ![v] =
                     IF o = "ok" THEN VersionRespond([@ EXCEPT !.read = o], 200, "cached")
                     ELSE [@ EXCEPT !.read = o, !.pc = "resolve"]]
    /\ UNCHANGED <<chunkVars, parseVars, upstreamBuild, currentBuildId, s3, tmpFiles, textApi, treq, areq>>

\* lines 752-767, the catch block: status is error.response.status, 0 when
\* the error carries no response
VersionCatch(r, status) ==
    IF r.attempt = 1 /\ status = 404
    THEN [r EXCEPT !.pc = "refresh", !.nLanding = @ + 1]
    ELSE VersionRespond(r, IF status # 0 THEN status ELSE 500, "error")

\* lines 681-683 and 73-78, the loop test and getBuildId(): the stored
\* token when there is one, else a landing fetch is issued; the loop, and
\* with it the handler, ends once attempt exceeds 2
VersionGetBuildId(v) ==
    /\ vreq[v].pc = "resolve"
    /\ vreq' = [vreq EXCEPT ![v] =
                  IF @.attempt > 2
                  THEN [@ EXCEPT !.pc = "exited"]
                  ELSE IF currentBuildId # 0
                  THEN [@ EXCEPT !.buildId = currentBuildId, !.pc = "fetch"]
                  ELSE [@ EXCEPT !.pc = "landing", !.nLanding = @ + 1]]
    /\ UNCHANGED <<chunkVars, parseVars, upstreamBuild, currentBuildId, s3, tmpFiles, textApi, treq, areq>>

\* line 75: the landing fetch of getBuildId returns or throws
VersionLandingDone(v) ==
    /\ vreq[v].pc = "landing"
    /\ \E o \in LandingOutcomes :
          IF o = "ok"
          THEN /\ currentBuildId' = upstreamBuild
               /\ vreq' = [vreq EXCEPT ![v] = [@ EXCEPT !.buildId = upstreamBuild, !.pc = "fetch"]]
          ELSE /\ currentBuildId' = currentBuildId
               /\ vreq' = [vreq EXCEPT ![v] = VersionCatch(@, ErrorStatus(o))]
    /\ UNCHANGED <<chunkVars, parseVars, upstreamBuild, s3, tmpFiles, textApi, treq, areq>>

\* lines 688-750: the response of the version fetch arrives; a body without
\* pageProps.version throws into the catch block
VersionFetched(v) ==
    /\ vreq[v].pc = "fetch"
    /\ \E o \in FetchOutcomes(vreq[v].buildId) :
          LET r == [vreq[v] EXCEPT !.nFetch = @ + 1]
          IN  vreq' = [vreq EXCEPT ![v] =
                         IF o = "ok" THEN [r EXCEPT !.pc = "built"]
                         ELSE VersionCatch(r, ErrorStatus(o))]
    /\ UNCHANGED <<chunkVars, parseVars, upstreamBuild, currentBuildId, s3, tmpFiles, textApi, treq, areq>>

\* lines 758-764: the landing fetch of the forced refresh returns (the
\* token is replaced, attempt++ and the loop runs again) or throws (500)
VersionRefreshDone(v) ==
    /\ vreq[v].pc = "refresh"
    /\ \E o \in LandingOutcomes :
          IF o = "ok"
          THEN /\ currentBuildId' = upstreamBuild
               /\ vreq' = [vreq EXCEPT ![v] = [@ EXCEPT !.attempt = @ + 1, !.pc = "resolve"]]
          ELSE /\ currentBuildId' = currentBuildId
               /\ vreq' = [vreq EXCEPT ![v] = VersionRespond(@, 500, "error")]
    /\ UNCHANGED <<chunkVars, parseVars, upstreamBuild, s3, tmpFiles, textApi, treq, areq>>

\* lines 736-739: fs.writeFile of the temp file; a failure is caught and the
\* version data is sent all the same
VersionCacheWrite(v) ==
    /\ vreq[v].pc = "built"
    /\ \E o \in {"ok", "error"} :
          IF o = "ok"
          THEN /\ tmpFiles' = Put(tmpFiles, VersionPath(v, vreq[v]), VersionFile)
               /\ vreq' = [vreq EXCEPT ![v] = [@ EXCEPT !.pc = "upload"]]
          ELSE /\ tmpFiles' = tmpFiles
               /\ vreq' = [vreq EXCEPT ![v] = VersionRespond(@, 200, "fresh")]
    /\ UNCHANGED <<chunkVars, parseVars, upstreamBuild, currentBuildId, s3, textApi, treq, areq>>

\* lines 740-747: uploadToS3 of the temp file, then res.json({data: ...});
\* a failed upload is caught
VersionUpload(v) ==
    /\ vreq[v].pc = "upload"
    /\ \E o \in UploadOutcomes(VersionPath(v, vreq[v])) :
          /\ s3' = UploadToS3Bucket(VersionWriteKey(vreq[v].lang, vreq[v].abbr),
                                    VersionPath(v, vreq[v]), o)
          /\ tmpFiles' = UploadToS3Files(VersionPath(v, vreq[v]))
          /\ vreq' = [vreq EXCEPT ![v] =
                        VersionRespond([@ EXCEPT !.wrote = (o = "ok")], 200, "fresh")]
    /\ UNCHANGED <<chunkVars, parseVars, upstreamBuild, currentBuildId, textApi, treq, areq>>

\* a step of the handler of request v after its start
VersionStep(v) ==
    \/ VersionCacheCheck(v)
    \/ VersionCacheRead(v)
    \/ VersionGetBuildId(v)
    \/ VersionLandingDone(v)
    \/ VersionFetched(v)
    \/ VersionRefreshDone(v)
    \/ VersionCacheWrite(v)
    \/ VersionUpload(v)

(***************************************************************************)
(* The audio route, POST /audio-bible (biblia.js:495-648).                 *)
(***************************************************************************)
AudioProcs == {"a1"}

\* two clients whose audio requests overlap
ConcurrentAudio == {"a1", "a2"}

NoAudioResp == [status |-> 0, kind |-> "none", body |-> "none", url |-> NoKey, cause |-> "none"]

\* where the JSON body of a response holds its payload: res.json({ audio_url:
\* s3Url }) of lines 546 and 634 puts it at the top level, the other
\* responses are { error: ... }
AudioBody(status) == IF status = 200 THEN "top" ELSE "error"

NoPath == <<>>

\* a request record.  pc is the await the handler is suspended at; ref,
\* chunks, speechifyResults, tempAudioFiles and finalAudioPath are the
\* handler's locals; synth and save are the states of the promises of lines
\* 598 and 604, savedPaths the values Promise.all of line 611 has collected;
\* the other fields record what the request has done.
AudioIdle ==
    [pc |-> "idle", ref |-> NoRef, chunks |-> <<>>,
     payloads |-> <<>>, synth |-> <<>>, speechifyResults |-> <<>>,
     save |-> <<>>, savedPaths |-> <<>>,
     tempAudioFiles |-> <<>>, finalAudioPath |-> NoPath,
     resp |-> NoAudioResp, nResp |-> 0,
     held |-> FALSE, check |-> "none", nText |-> 0, textStatus |-> 0, textKind |-> "none",
     synthOrder |-> "none", saveOrder |-> "none",
     nSynth |-> 0, synthFailed |-> FALSE, created |-> {}, leak |-> {},
     failedAt |-> "none", nConcat |-> 0, concatOk |-> FALSE, concatInput |-> <<>>,
     concatLeft |-> {}, nUpload |-> 0, uploadLeft |-> {}, wrote |-> FALSE, calls |-> 0]

\* res.status(status).json(...) / res.json(...), then return; files is the
\* temp directory at that moment
AudioRespond(r, status, kind, url, cause, files) ==
    [r EXCEPT !.pc = "done", !.nResp = @ + 1,
              !.resp = [status |-> status, kind |-> kind, body |-> AudioBody(status),
                        url |-> url, cause |-> cause],
              !.leak = r.created \cap DOMAIN files]

\* lines 636-645, the catch block: the files listed in tempAudioFiles are
\* unlinked
AudioCatchFiles(r, files) == UnlinkAll(files, r.tempAudioFiles)

\* lines 636-645, the catch block: the 500 response
AudioCatch(r, stage, files) ==
    AudioRespond([r EXCEPT !.failedAt = stage], 500, "error", NoKey, stage,
                 AudioCatchFiles(r, files))

\* a bug: the language is not looked at
AudioValidateAnyLanguage(r) ==
    IF r.ref.abbr = "" \/ r.ref.book = "" \/ r.ref.chapter = "" \/ r.ref.lang = ""
    THEN AudioRespond(r, 400, "error", NoKey, "missing fields", tmpFiles)
    ELSE [r EXCEPT !.pc = "cacheCheck"]

\* lines 505-523: the required fields and the language
AudioValidate(r) ==
    IF r.ref.abbr = "" \/ r.ref.book = "" \/ r.ref.chapter = "" \/ r.ref.lang = ""
    THEN AudioRespond(r, 400, "error", NoKey, "missing fields", tmpFiles)
    ELSE IF ToLowerCase(r.ref.lang) # "es"
    THEN AudioRespond(r, 400, "error", NoKey, "unsupported language", tmpFiles)
    ELSE [r EXCEPT !.pc = "cacheCheck"]

\* the bodies a client of the audio route sends: the fields of es/RVR1960/
\* GEN/1 and the bodies that depart from it in one field ("" is a missing
\* field)
AudioRequests ==
    {ref \in [lang : AudioLangs, abbr : Abbreviations \cup {""}, book : Books,
              chapter : AudioChapters] :
        Cardinality(Differing(ref, StoredRef)) <= 1}

\* no write of an earlier request of this client is still in flight
Settled(r) == \A i \in DOMAIN r.save : r.save[i] # "pending"

\* a client sends POST /audio-bible
AudioStart(a) ==
    /\ areq[a].pc \in {"idle", "done"}
    /\ areq[a].calls < MaxAudioCalls
    /\ Settled(areq[a])
    /\ \E ref \in AudioRequests :
          areq' = [areq EXCEPT ![a] =
                     AudioValidate([AudioIdle EXCEPT !.ref = ref, !.calls = areq[a].calls + 1,
                                                     !.held = AudioKey(ref) \in DOMAIN s3])]
    /\ UNCHANGED <<chunkVars, parseVars, vreq, upstreamBuild, currentBuildId, s3, tmpFiles, textApi, treq>>

\* a bug: a storage error of the check is taken for a miss
AudioAfterCheckErrorAsMiss(r, o) ==
    IF o = "hit"
    THEN AudioRespond([r EXCEPT !.check = o], 200, "cached", PublicUrl(AudioKey(r.ref)), "none", tmpFiles)
    ELSE [r EXCEPT !.check = o, !.pc = "fetchText"]

\* a bug: the hit is logged but the handler does not return
AudioAfterCheckNoReturn(r, o) ==
    IF o = "error" THEN AudioCatch([r EXCEPT !.check = o], "check", tmpFiles)
    ELSE [r EXCEPT !.check = o, !.pc = "fetchText"]

\* lines 541-548, await checkJsonExists(s3Key): a hit is answered with the
\* URL of the object, a miss goes on, a storage error is thrown to the catch
\* block of line 636
AudioAfterCheck(r, o) ==
    IF o = "hit"
    THEN AudioRespond([r EXCEPT !.check = o], 200, "cached", PublicUrl(AudioKey(r.ref)), "none", tmpFiles)
    ELSE IF o = "miss"
    THEN [r EXCEPT !.check = o, !.pc = "fetchText"]
    ELSE AudioCatch([r EXCEPT !.check = o], "check", tmpFiles)

AudioCacheCheck(a) ==
    /\ areq[a].pc = "cacheCheck"
    /\ \E o \in CheckJsonExists(AudioKey(areq[a].ref)) :
          areq' = [areq EXCEPT ![a] = AudioAfterCheck(@, o)]
    /\ UNCHANGED <<chunkVars, parseVars, vreq, upstreamBuild, currentBuildId, s3, tmpFiles, textApi, treq>>

\* lines 553-555: GET http://localhost:1020/api/{lang}/{abbr}/{book}/{chapter}
\* is sent.  server.js mounts this router on that port under /api, so the
\* chapter-text route above serves the request; textApi = "external" is a
\* deployment in which another service answers on that address.
AudioFetchText(a) ==
    /\ areq[a].pc = "fetchText"
    /\ areq' = [areq EXCEPT ![a] = [@ EXCEPT !.pc = "waitText", !.nText = @ + 1]]
    /\ IF textApi = "router"
       THEN /\ treq[InternalText].pc \in {"idle", "done", "exited"}
            /\ treq' = [treq EXCEPT ![InternalText] = TextBegin(TextIdle, UrlRef(areq[a].ref))]
       ELSE treq' = treq
    /\ UNCHANGED <<chunkVars, parseVars, vreq, upstreamBuild, currentBuildId, s3, tmpFiles, textApi>>

\* the HTTP responses the awaited axios.get of line 555 can end with:
\* status 0 is the 5 s timeout or a network error; body says whether the
(***************************************************************************)
(* parseBibleHtmlToJson.  The markup of a chapter is the sequence of the   *)
(* children of div.chapter the parser selects; a paragraph-like child      *)
(* holds its span.verse elements in document order.                        *)
(***************************************************************************)
\* a span.verse: its data-usfm, the text of its label, its normalised
\* content text and the classes of its notes
VerseSpan(usfm, label, txt, notes) ==
    [usfm |-> usfm, label |-> label, text |-> txt, notes |-> notes]

\* div.s and div.r carry a heading text, div.p and div.q carry verses
HeadingDiv(cls, txt) == [class |-> cls, text |-> txt, spans |-> <<>>]

VerseDiv(cls, spans) == [class |-> cls, text |-> <<>>, spans |-> spans]

\* line 138: currentNumberStr ? parseInt(currentNumberStr, 10) : null, with
\* 0 for null and -1 for NaN
CurrentNumber(label) ==
    CASE label = "" -> 0
      [] label = "1" -> 1
      [] label = "2" -> 2
      [] OTHER -> -1

\* currentNumber !== null && !isNaN(currentNumber)
ValidNumber(n) == n # 0 /\ n # -1

\* the condition of line 168
HasContent(span) ==
    span.text # <<>> \/ span.notes # <<>> \/ ValidNumber(CurrentNumber(span.label))

\* lines 183-188: the verse a fragment starts
NewVerse(span) ==
    [number |-> IF ValidNumber(CurrentNumber(span.label)) THEN CurrentNumber(span.label) ELSE 0,
     usfm |-> span.usfm,
     text |-> span.text,
     notes |-> span.notes]

\* lines 173-180: a fragment appended to the last verse of the block
MergedVerse(lastVerse, span) ==
    [number |-> IF ~ValidNumber(lastVerse.number) /\ ValidNumber(CurrentNumber(span.label))
                THEN CurrentNumber(span.label) ELSE lastVerse.number,
     usfm |-> lastVerse.usfm,
     text |-> IF span.text # <<>>
              THEN lastVerse.text \o (IF lastVerse.text # <<>> THEN <<" ">> ELSE <<>>) \o span.text
              ELSE lastVerse.text,
     notes |-> lastVerse.notes \o span.notes]

\* a bug: every fragment with content starts a verse of its own
AddVerseNoMerge(verses, span) ==
    IF ~HasContent(span) THEN verses ELSE Append(verses, NewVerse(span))

\* lines 168-190: one span.verse added to currentBlock.verses
AddVerse(verses, span) ==
    IF ~HasContent(span) THEN verses
    ELSE IF verses # <<>> /\ verses[Len(verses)].usfm = span.usfm
         THEN [verses EXCEPT ![Len(verses)] = MergedVerse(verses[Len(verses)], span)]
         ELSE Append(verses, NewVerse(span))

RECURSIVE BlockVerses(_, _, _)
\* lines 134-191: the spans from index i on, added in document order
BlockVerses(verses, spans, i) ==
    IF i > Len(spans) THEN verses
    ELSE BlockVerses(AddVerse(verses, spans[i]), spans, i + 1)

\* line 127
BlockType(cls) == IF cls = "q" THEN "quote_line" ELSE "paragraph"

\* the index of the last paragraph-like node of content, 0 when none
LastBlockIndex(content) ==
    IF \E i \in DOMAIN content : content[i].type \in {"paragraph", "quote_line"}
    THEN CHOOSE i \in DOMAIN content :
            /\ content[i].type \in {"paragraph", "quote_line"}
            /\ \A j \in (i + 1)..Len(content) : content[j].type \notin {"paragraph", "quote_line"}
    ELSE 0

\* a bug: currentBlock outlives its element, so the verses of a later
\* paragraph are added to the block emitted before it, across headings
ParseElementSharedBlock(content, el) ==
    IF el.class = "s" THEN Append(content, [type |-> "heading", text |-> el.text])
    ELSE IF el.class = "r" THEN Append(content, [type |-> "reference", text |-> el.text])
    ELSE IF LastBlockIndex(content) # 0
         THEN [content EXCEPT ![LastBlockIndex(content)].verses =
                                  BlockVerses(@, el.spans, 1)]
         ELSE LET verses == BlockVerses(<<>>, el.spans, 1)
              IN  IF verses # <<>>
                  THEN Append(content, [type |-> BlockType(el.class), verses |-> verses])
                  ELSE content

\* lines 111-198: one child of div.chapter
ParseElement(content, el) ==
    IF el.class = "s" THEN Append(content, [type |-> "heading", text |-> el.text])
    ELSE IF el.class = "r" THEN Append(content, [type |-> "reference", text |-> el.text])
    ELSE LET verses == BlockVerses(<<>>, el.spans, 1)
         IN  IF verses # <<>>
             THEN Append(content, [type |-> BlockType(el.class), verses |-> verses])
             ELSE content

RECURSIVE ParseElements(_, _, _)
ParseElements(content, els, i) ==
    IF i > Len(els) THEN content
    ELSE ParseElements(ParseElement(content, els[i]), els, i + 1)

\* parseBibleHtmlToJson(htmlString).book.chapters[0].content
ParseBibleHtmlToJson(els) == ParseElements(<<>>, els, 1)

\* line 410: verse.number !== null || verse.usfm || verse.text || notes
KeptVerse(verse) ==
    verse.number # 0 \/ verse.usfm # "" \/ verse.text # <<>> \/ verse.notes # <<>>

\* lines 411-416: the entry pushed for a verse
FlatVerse(verse) ==
    [type |-> "verse", number |-> verse.number, usfm |-> verse.usfm,
     text |-> verse.text, notes |-> verse.notes]

\* a bug: only the first verse of a block is pushed
FlatVersesFirstOnly(verses) ==
    IF verses = <<>> THEN <<>> ELSE <<FlatVerse(verses[1])>>

\* lines 407-418: the verses of one block, flattened
FlatVerses(verses) ==
    LET kept == SelectSeq(verses, KeptVerse)
    IN  [i \in DOMAIN kept |-> FlatVerse(kept[i])]

RECURSIVE FinalContent(_, _)
\* lines 400-421: headings and references kept, verses taken out of their
\* blocks
FinalContent(parsed, i) ==
    IF i > Len(parsed) THEN <<>>
    ELSE (IF parsed[i].type \in {"heading", "reference"}
          THEN <<parsed[i]>>
          ELSE FlatVerses(parsed[i].verses))
         \o FinalContent(parsed, i + 1)

\* chapter sits under a data field (res.json({data: ...}) of lines 359 and
\* 459) or at the top level of the body
InternalResponses ==
    {[status |-> 0, body |-> "none", chapter |-> NoChapter]}
    \cup (IF textApi = "router"
          THEN IF treq[InternalText].pc = "done"
               THEN {[status |-> treq[InternalText].resp.status,
                      body |-> IF treq[InternalText].resp.status = 200 THEN "data" ELSE "error",
                      chapter |-> treq[InternalText].resp.chapter]}
               ELSE {}
          ELSE {[status |-> 200, body |-> "top", chapter |-> ch] : ch \in Chapters}
               \cup {[status |-> 404, body |-> "error", chapter |-> NoChapter]})

\* textResponse.data.title
BodyTitle(rsp) == IF rsp.body = "top" THEN rsp.chapter.title ELSE <<>>

\* Array.isArray(textResponse.data.content)
BodyContentIsArray(rsp) == rsp.body = "top" /\ rsp.chapter.kind = "chapter"

\* array.join(sep) of strings
RECURSIVE Join(_, _)
Join(parts, sep) ==
    IF parts = <<>> THEN <<>>
    ELSE IF Len(parts) = 1 THEN parts[1]
    ELSE parts[1] \o sep \o Join(Tail(parts), sep)

\* content.findIndex(item => item.type === 'heading'), 0 for -1
FirstHeadingIndex(content) ==
    IF \E i \in DOMAIN content : content[i].type = "heading"
    THEN CHOOSE i \in DOMAIN content :
            /\ content[i].type = "heading"
            /\ \A j \in 1..(i - 1) : content[j].type # "heading"
    ELSE 0

RECURSIVE RestPartsAll(_, _, _)
\* a bug: the first heading and the references are not excluded
RestPartsAll(content, i, first) ==
    IF i > Len(content) THEN <<>>
    ELSE (IF content[i].text # <<>> THEN <<content[i].text>> ELSE <<>>)
         \o RestPartsAll(content, i + 1, first)

RECURSIVE RestParts(_, _, _)
\* lines 576-581: the text of every item from index i on that has text, is
\* not the first heading and is not a reference
RestParts(content, i, first) ==
    IF i > Len(content) THEN <<>>
    ELSE (IF content[i].text # <<>> /\ i # first /\ content[i].type # "reference"
          THEN <<content[i].text>> ELSE <<>>)
         \o RestParts(content, i + 1, first)

\* lines 558-583: the narration text of a chapter
Narration(ch) ==
    LET first == FirstHeadingIndex(ch.content)
    IN  Join((IF ch.title # <<>> THEN <<ch.title \o <<":">>>> ELSE <<>>)
             \o (IF first # 0 /\ ch.content[first].text # <<>>
                 THEN <<ch.content[first].text \o <<".", ".", ".">>>> ELSE <<>>)
             \o RestParts(ch.content, 1, first),
             <<"\n">>)

\* a bug: Promise.allSettled, which waits for every promise and never rejects
PromiseAllSettled(states) ==
    IF \E i \in DOMAIN states : states[i] = "pending" THEN "pending" ELSE "fulfilled"

\* Promise.all over promises in the given states
PromiseAll(states) ==
    IF \E i \in DOMAIN states : states[i] = "fail" THEN "rejected"
    ELSE IF \E i \in DOMAIN states : states[i] = "pending" THEN "pending"
    ELSE "fulfilled"

\* a buggy collection of results: in order of arrival
CollectByArrival(results, i, v) ==
    LET k == CHOOSE j \in DOMAIN results :
                /\ results[j] = <<>>
                /\ \A h \in 1..(j - 1) : results[h] # <<>>
    IN  [results EXCEPT ![k] = v]

\* Promise.all: the value of the i-th promise is the i-th element of the
\* result, whenever it arrives
CollectResult(results, i, v) == [results EXCEPT ![i] = v]

\* the audio the speech API returns for a chunk: the chunk, spoken
Speech(chunk) == <<chunk>>

\* lines 514-516: voice_name and language_code for bible_lang
VoiceName(lang) == IF ToLowerCase(lang) = "es" THEN "Linda" ELSE "none"

LanguageCode(lang) == IF ToLowerCase(lang) = "es" THEN "es-ES" ELSE "none"

\* the payload generateAudioSpeechify(textChunk, voiceName, languageCode)
\* posts (audio_utils.js:75-83): voiceParams is a literal, the voice
\* arguments are not read
SpeechifyPayload(textChunk, voiceName, languageCode) ==
    [paragraphChunks |-> <<textChunk>>,
     voiceParams |-> [name |-> "Dalia", engine |-> "azure", languageCode |-> "es-MX"]]

\* lines 593-600: the chunks, and one generateAudioSpeechify call per chunk
AudioBeginSynth(r, ch) ==
    LET chunks == SplitTextIntoChunks(Narration(ch), SPEECHIFY_CHAR_LIMIT)
    IN  [r EXCEPT !.chunks = chunks,
                  !.payloads = [i \in DOMAIN chunks |->
                                  SpeechifyPayload(chunks[i], VoiceName(r.ref.lang),
                                                   LanguageCode(r.ref.lang))],
                  !.synth = [i \in DOMAIN chunks |-> "pending"],
                  !.speechifyResults = [i \in DOMAIN chunks |-> <<>>],
                  !.savedPaths = [i \in DOMAIN chunks |-> NoPath],
                  !.nSynth = Len(chunks),
                  !.pc = "synth"]

\* lines 555-591: the response of the internal request is checked
AudioAfterText(r, rsp) ==
    IF rsp.status = 200 /\ BodyTitle(rsp) # <<>> /\ BodyContentIsArray(rsp)
    THEN AudioBeginSynth([r EXCEPT !.textStatus = rsp.status, !.textKind = rsp.chapter.kind],
                         rsp.chapter)
    ELSE AudioRespond([r EXCEPT !.textStatus = rsp.status, !.textKind = rsp.chapter.kind,
                                !.failedAt = "text"],
                      500, "error", NoKey, "text", tmpFiles)

AudioTextResponse(a) ==
    /\ areq[a].pc = "waitText"
    /\ \E rsp \in InternalResponses :
          areq' = [areq EXCEPT ![a] = AudioAfterText(@, rsp)]
    /\ UNCHANGED <<chunkVars, parseVars, vreq, upstreamBuild, currentBuildId, s3, tmpFiles, textApi, treq>>

\* the path of a staged chunk file, a fresh uuid per call
Mp3Path(a, r, i) == <<"mp3", a, r.calls, i>>

\* the path of the concatenated file of line 620
ConcatPath(ref) == <<"final", ref.abbr, ToUpperCase(ref.book), ChapterToString(ref.chapter)>>

Mp3File(a, audio) == [kind |-> "mp3", chapter |-> NoChapter, audio |-> audio, owner |-> a]

\* lines 604-610: every result has its audioStream (generateAudioSpeechify
\* resolves with nothing else) and its write is issued
AudioBeginStage(r) ==
    [r EXCEPT !.save = [i \in DOMAIN r.chunks |-> "pending"], !.pc = "stage"]

\* a bug: the first staged file is uploaded whatever their number
NeverConcat(files) == FALSE

\* a bug: a single staged file is concatenated as well
AlwaysConcat(files) == TRUE

\* line 615: whether the staged files have to be concatenated
NeedsConcat(files) == Len(files) # 1

\* lines 611-624 once every write has succeeded: tempAudioFiles is set, and
\* the single file is the final one or concatenateAudioFiles is called
AudioAfterStage(r, files) ==
    IF NeedsConcat(r.savedPaths)
    THEN [r EXCEPT !.tempAudioFiles = r.savedPaths, !.pc = "concat", !.nConcat = @ + 1,
                   !.concatInput = [i \in DOMAIN r.savedPaths |-> files[r.savedPaths[i]].audio]]
    ELSE [r EXCEPT !.tempAudioFiles = r.savedPaths, !.pc = "upload",
                   !.finalAudioPath = r.savedPaths[1]]

\* whether the calls ended so far ended in the order of their positions:
\* "other" once call i ends while a call before it is still pending
ArrivalOrder(order, calls, i) ==
    IF \E j \in DOMAIN calls : j < i /\ calls[j] = "pending" THEN "other"
    ELSE IF order = "none" THEN "index"
    ELSE order

\* lines 598-601: a generateAudioSpeechify call resolves or rejects
AudioSynthDone(a, i) ==
    /\ areq[a].pc = "synth"
    /\ i \in DOMAIN areq[a].synth
    /\ areq[a].synth[i] = "pending"
    /\ \E o \in {"ok", "fail"} :
          LET r == [areq[a] EXCEPT
                      !.synth = [@ EXCEPT ![i] = o],
                      !.synthFailed = @ \/ o = "fail",
                      !.synthOrder = ArrivalOrder(@, areq[a].synth, i),
                      !.speechifyResults =
                          IF o = "ok" THEN CollectResult(@, i, Speech(areq[a].chunks[i])) ELSE @]
              all == PromiseAll(r.synth)
          IN  areq' = [areq EXCEPT ![a] =
                         IF all = "rejected" THEN AudioCatch(r, "synth", tmpFiles)
                         ELSE IF all = "fulfilled" THEN AudioBeginStage(r)
                         ELSE r]
    /\ UNCHANGED <<chunkVars, parseVars, vreq, upstreamBuild, currentBuildId, s3, tmpFiles, textApi, treq>>

\* lines 604-611 and saveAudioChunkFromBase64: a write ends.  The handler,
\* when it still awaits Promise.all, goes on once all have succeeded and to
\* its catch block at the first failure; a write that ends after that only
\* leaves its file.
AudioStageDone(a, i) ==
    /\ i \in DOMAIN areq[a].save
    /\ areq[a].save[i] = "pending"
    /\ \E o \in {"ok", "fail"} :
          LET path == Mp3Path(a, areq[a], i)
              files == IF o = "ok"
                       THEN Put(tmpFiles, path, Mp3File(a, areq[a].speechifyResults[i]))
                       ELSE tmpFiles
              r == [areq[a] EXCEPT
                      !.save = [@ EXCEPT ![i] = o],
                      !.created = IF o = "ok" THEN @ \cup {path} ELSE @,
                      !.saveOrder = ArrivalOrder(@, areq[a].save, i),
                      !.savedPaths = IF o = "ok" /\ areq[a].pc = "stage"
                                     THEN CollectResult(@, i, path) ELSE @]
              all == PromiseAll(r.save)
          IN  IF areq[a].pc # "stage"
              THEN /\ tmpFiles' = files
                   /\ areq' = [areq EXCEPT ![a] = r]
              ELSE IF all = "rejected"
              THEN /\ tmpFiles' = AudioCatchFiles(r, files)
                   /\ areq' = [areq EXCEPT ![a] = AudioCatch(r, "stage", files)]
              ELSE /\ tmpFiles' = files
                   /\ areq' = [areq EXCEPT ![a] =
                                 IF all = "fulfilled" THEN AudioAfterStage(r, files) ELSE r]
    /\ UNCHANGED <<chunkVars, parseVars, vreq, upstreamBuild, currentBuildId, s3, textApi, treq>>

RECURSIVE ConcatAudio(_, _)
\* the audio of the files at the given paths, one after the other
ConcatAudio(files, paths) ==
    IF paths = <<>> THEN <<>>
    ELSE files[Head(paths)].audio \o ConcatAudio(files, Tail(paths))

\* outcomes of ffmpeg: it cannot succeed on a missing input
ConcatOutcomes(paths) ==
    IF \A i \in DOMAIN paths : paths[i] \in DOMAIN tmpFiles THEN {"ok", "fail"} ELSE {"fail"}

\* a bug: the inputs are unlinked on 'end' only
ConcatenateKeepsInputsOnError(paths, out, o, a) ==
    IF o = "ok"
    THEN Put(UnlinkAll(tmpFiles, paths), out, Mp3File(a, ConcatAudio(tmpFiles, paths)))
    ELSE tmpFiles

\* the temp directory after concatenateAudioFiles(paths, out) of request a
\* with the given outcome: the inputs are unlinked on 'end' and on 'error'
ConcatenateAudioFiles(paths, out, o, a) ==
    IF o = "ok"
    THEN Put(UnlinkAll(tmpFiles, paths), out, Mp3File(a, ConcatAudio(tmpFiles, paths)))
    ELSE UnlinkAll(tmpFiles, paths)

\* lines 620-623 and concatenateAudioFiles: ffmpeg ends; the inputs are
\* unlinked in both cases; on 'end' the output is the file to upload, on
\* 'error' the promise rejects into the catch block of line 636
AudioConcatDone(a) ==
    /\ areq[a].pc = "concat"
    /\ \E o \in ConcatOutcomes(areq[a].tempAudioFiles) :
          LET out == ConcatPath(areq[a].ref)
              files == ConcatenateAudioFiles(areq[a].tempAudioFiles, out, o, a)
              r == [areq[a] EXCEPT
                      !.concatLeft = {areq[a].tempAudioFiles[i] : i \in DOMAIN areq[a].tempAudioFiles}
                                       \cap DOMAIN files]
          IN  IF o = "ok"
              THEN /\ tmpFiles' = files
                   /\ areq' = [areq EXCEPT ![a] =
                                 [r EXCEPT !.finalAudioPath = out, !.tempAudioFiles = <<out>>,
                                           !.created = @ \cup {out}, !.concatOk = TRUE,
                                           !.pc = "upload"]]
              ELSE /\ tmpFiles' = AudioCatchFiles(r, files)
                   /\ areq' = [areq EXCEPT ![a] = AudioCatch(r, "concat", files)]
    /\ UNCHANGED <<chunkVars, parseVars, vreq, upstreamBuild, currentBuildId, s3, textApi, treq>>

\* lines 627-634 and uploadToS3: the upload ends; the file is unlinked in
\* both cases; the URL is the response, a failure goes to the catch block
AudioUploadDone(a) ==
    /\ areq[a].pc = "upload"
    /\ \E o \in UploadOutcomes(areq[a].finalAudioPath) :
          LET files == UploadToS3Files(areq[a].finalAudioPath)
              r == [areq[a] EXCEPT !.nUpload = @ + 1, !.wrote = (o = "ok"),
                                   !.uploadLeft = {areq[a].finalAudioPath} \cap DOMAIN files]
          IN  /\ s3' = UploadToS3Bucket(AudioKey(r.ref), r.finalAudioPath, o)
              /\ IF o = "ok"
                 THEN /\ tmpFiles' = files
                      /\ areq' = [areq EXCEPT ![a] =
                                    AudioRespond(r, 200, "generated", PublicUrl(AudioKey(r.ref)), "none", files)]
                 ELSE /\ tmpFiles' = AudioCatchFiles(r, files)
                      /\ areq' = [areq EXCEPT ![a] = AudioCatch(r, "upload", files)]
    /\ UNCHANGED <<chunkVars, parseVars, vreq, upstreamBuild, currentBuildId, textApi, treq>>

\* a step of the handler of request a after its start
AudioStep(a) ==
    \/ AudioCacheCheck(a)
    \/ AudioFetchText(a)
    \/ AudioTextResponse(a)
    \/ \E i \in 1..(MaxVerses + 2) : AudioSynthDone(a, i)
    \/ \E i \in 1..(MaxVerses + 2) : AudioStageDone(a, i)
    \/ AudioConcatDone(a)
    \/ AudioUploadDone(a)

(***************************************************************************)
(* The chunker alone, on every short text and small limit.                 *)
(***************************************************************************)
Alphabet == Letters \cup {" "}

\* a text of two words, the first as long as SPEECHIFY_CHAR_LIMIT
ExampleText ==
    <<"a", "b", "c", "d", "e", "f", "g", "h", "i", "j", " ", "k", "l", "m", "n", "o", "p">>

\* the texts handed to the chunker
Texts == UNION {[1..n -> Alphabet] : n \in 0..MaxTextLen} \cup {ExampleText}

\* the limits handed to the chunker: small ones and the one the audio route
\* passes
Limits == 1..MaxLimit \cup {SPEECHIFY_CHAR_LIMIT}

Split ==
    /\ ~splitDone
    /\ outChunks' = SplitTextIntoChunks(inText, inLimit)
    /\ splitDone' = TRUE
    /\ UNCHANGED <<inText, inLimit, parseVars, sysVars>>

\* the bucket outlives the process: it starts empty, or with the chapter of
\* one reference stored by an earlier run, or with its audio as well
Buckets ==
    {<<>>,
     [k \in {TextKey(StoredRef)} |-> JsonFile(Chapter(1))],
     [k \in {TextKey(StoredRef), AudioKey(StoredRef)} |->
        IF k = TextKey(StoredRef) THEN JsonFile(Chapter(1))
        ELSE Mp3File("earlier", <<Rep("a", 8)>>)]}

InitSystem ==
    /\ upstreamBuild = 1
    /\ currentBuildId = 0
    /\ s3 \in Buckets
    /\ tmpFiles = <<>>
    /\ treq = [p \in TextProcs |-> TextIdle]
    /\ areq = [a \in AudioProcs \cup ConcurrentAudio |-> AudioIdle]
    /\ vreq = [v \in VersionClients |-> VersionIdle]

InitChunkIdle ==
    /\ inText = <<>>
    /\ inLimit = 1
    /\ outChunks = <<>>
    /\ splitDone = FALSE

InitParseIdle ==
    /\ html = <<>>
    /\ parsedContent = <<>>
    /\ finalContent = <<>>
    /\ fetchedText = <<>>
    /\ parsePc = "html"

InitChunk ==
    /\ inText \in Texts
    /\ inLimit \in Limits
    /\ outChunks = <<>>
    /\ splitDone = FALSE
    /\ InitParseIdle
    /\ textApi = "router"
    /\ InitSystem

NextChunk == Split

SpecChunk == InitChunk /\ [][NextChunk]_vars

(***************************************************************************)
(* The parser and the flattening of the text route alone, on small markup. *)
(***************************************************************************)
Usfms == {"GEN.1.1", "GEN.1.2"}

Labels == {"", "1", "2"}

\* the content text and the notes of a span: nothing, a text, a note, and
\* two texts with a note each
SpanBodies ==
    {[text |-> <<>>, notes |-> <<>>],
     [text |-> <<"a">>, notes |-> <<>>],
     [text |-> <<>>, notes |-> <<"x">>],
     [text |-> <<"a">>, notes |-> <<"f">>],
     [text |-> <<"b">>, notes |-> <<"x">>]}

VerseSpans ==
    {VerseSpan(u, l, b.text, b.notes) : u \in Usfms, l \in Labels, b \in SpanBodies}

\* one paragraph of up to MaxSpans verse spans
Paragraphs ==
    {<<VerseDiv("p", spans)>> :
        spans \in UNION {[1..n -> VerseSpans] : n \in 0..MaxSpans}}

\* headings, one of them without text, a reference, and blocks of one span of the same verse: with a
\* label, without one, and with neither text, note nor number
Elements ==
    {HeadingDiv("s", <<"H">>), HeadingDiv("s", <<"I">>), HeadingDiv("s", <<>>),
     HeadingDiv("r", <<"R">>),
     VerseDiv("p", <<VerseSpan("GEN.1.1", "1", <<"a">>, <<>>)>>),
     VerseDiv("q", <<VerseSpan("GEN.1.1", "", <<"b">>, <<"f">>)>>),
     VerseDiv("p", <<VerseSpan("GEN.1.1", "x", <<>>, <<>>)>>)}

\* up to MaxElements children of div.chapter
ChapterMarkups == UNION {[1..n -> Elements] : n \in 0..MaxElements}

Markups == Paragraphs \cup ChapterMarkups

\* line 389
ParseHtml ==
    /\ parsePc = "html"
    /\ parsedContent' = ParseBibleHtmlToJson(html)
    /\ parsePc' = "parsed"
    /\ UNCHANGED <<html, finalContent, fetchedText, chunkVars, sysVars>>

\* lines 400-421
FlattenParsed ==
    /\ parsePc = "parsed"
    /\ finalContent' = FinalContent(parsedContent, 1)
    /\ parsePc' = "flattened"
    /\ UNCHANGED <<html, parsedContent, fetchedText, chunkVars, sysVars>>

\* lines 558-583, on the chapter the text route answers with
BuildNarration ==
    /\ parsePc = "flattened"
    /\ fetchedText' = Narration([kind |-> "chapter", title |-> <<"G">>, content |-> finalContent])
    /\ parsePc' = "narrated"
    /\ UNCHANGED <<html, parsedContent, finalContent, chunkVars, sysVars>>

InitParse ==
    /\ InitChunkIdle
    /\ html \in Markups
    /\ parsedContent = <<>>
    /\ finalContent = <<>>
    /\ fetchedText = <<>>
    /\ parsePc = "html"
    /\ textApi = "router"
    /\ InitSystem
    /\ s3 = <<>>

NextParse == ParseHtml \/ FlattenParsed \/ BuildNarration

SpecParse == InitParse /\ [][NextParse]_vars

InitText ==
    /\ InitChunkIdle
    /\ InitParseIdle
    /\ InitSystem
    /\ textApi = "router"

NextText ==
    \/ \E p \in TextClients : TextStart(p)
    \/ \E p \in TextClients : TextStep(p)
    \/ Rotate

SpecText == InitText /\ [][NextText]_vars

(***************************************************************************)
(* One chapter-text request per client, in a process that holds no token   *)
(* or the token of the first build, where every call a handler awaits      *)
(* settles: the handler of a pending request eventually takes its next     *)
(* step.                                                                   *)
(***************************************************************************)
InitTextFair ==
    /\ InitChunkIdle
    /\ InitParseIdle
    /\ upstreamBuild = 1
    /\ currentBuildId \in 0..1
    /\ s3 \in Buckets
    /\ tmpFiles = <<>>
    /\ textApi = "router"
    /\ treq = [p \in TextProcs |-> TextIdle]
    /\ areq = [a \in AudioProcs \cup ConcurrentAudio |-> AudioIdle]
    /\ vreq = [v \in VersionClients |-> VersionIdle]

\* the one request of a client
FairStart(p) ==
    /\ treq[p].calls = 0
    /\ TextStart(p)

NextTextFair ==
    \/ \E p \in TextClients : FairStart(p)
    \/ \E p \in TextClients : TextStep(p)
    \/ Rotate

SpecTextFair ==
    InitTextFair /\ [][NextTextFair]_vars /\ \A p \in TextClients : WF_vars(TextStep(p))

(***************************************************************************)
(* Two overlapping chapter-text requests while the upstream keeps its      *)
(* BUILD_ID and serves its landing page.  The process may hold no token,   *)
(* the upstream's, or one of an earlier build.                             *)
(***************************************************************************)
InitToken ==
    /\ InitChunkIdle
    /\ InitParseIdle
    /\ InitSystem
    /\ s3 = <<>>
    /\ textApi = "router"

\* the upstream was redeployed before the requests: the BUILD_ID moves on,
\* and so may the token, to any earlier BUILD_ID
TokenSetup ==
    /\ \A p \in ConcurrentClients : treq[p].pc = "idle"
    /\ upstreamBuild < MaxBuild
    /\ upstreamBuild' = upstreamBuild + 1
    /\ currentBuildId' \in 0..upstreamBuild
    /\ UNCHANGED <<chunkVars, parseVars, vreq, s3, tmpFiles, textApi, treq, areq>>

\* each client sends one request, for the same chapter
TokenStart(p) ==
    /\ treq[p].calls = 0
    /\ TextStart(p)
    /\ treq'[p].ref = StoredRef

\* a step of a request; the landing fetches succeed
TokenStep(p) ==
    /\ TextStep(p)
    /\ treq[p].pc = "landing" => treq'[p].pc = "fetch"
    /\ treq[p].pc = "refresh" => treq'[p].pc = "resolve"

NextToken ==
    \/ TokenSetup
    \/ \E p \in ConcurrentClients : TokenStart(p)
    \/ \E p \in ConcurrentClients : TokenStep(p)

SpecToken == InitToken /\ [][NextToken]_vars

(***************************************************************************)
(* Two overlapping audio requests for one chapter that is not cached, with *)
(* a text service, a speech API, a disk and a bucket that do not fail.     *)
(***************************************************************************)
InitPair ==
    /\ InitChunkIdle
    /\ InitParseIdle
    /\ InitSystem
    /\ s3 = <<>>
    /\ textApi = "external"

\* each client sends one request, for the same chapter
PairStart(a) ==
    /\ areq[a].calls = 0
    /\ AudioStart(a)
    /\ areq'[a].ref = StoredRef

\* a step of a request; no call fails, except the upload of a file that is
\* not there
PairStep(a) ==
    /\ AudioStep(a)
    /\ \A i \in DOMAIN areq'[a].save : areq'[a].save[i] # "fail"
    /\ \/ areq'[a].failedAt = "none"
       \/ /\ areq'[a].failedAt = "upload"
          /\ areq[a].finalAudioPath \notin DOMAIN tmpFiles

NextPair ==
    \/ \E a \in ConcurrentAudio : PairStart(a)
    \/ \E a \in ConcurrentAudio : PairStep(a)

SpecPair == InitPair /\ [][NextPair]_vars

(***************************************************************************)
(* Requests for version information, one after the other.  The bucket is   *)
(* empty, or holds the object that was stored for es/RVR1960 under the key *)
(* with the language.                                                      *)
(***************************************************************************)
\* the buckets a version-info request may find
VersionBuckets ==
    {<<>>, [k \in {VersionKey("es", "RVR1960")} |-> VersionFile]}

InitVersion ==
    /\ InitChunkIdle
    /\ InitParseIdle
    /\ upstreamBuild = 1
    /\ currentBuildId = 0
    /\ s3 \in VersionBuckets
    /\ tmpFiles = <<>>
    /\ treq = [p \in TextProcs |-> TextIdle]
    /\ areq = [a \in AudioProcs \cup ConcurrentAudio |-> AudioIdle]
    /\ vreq = [v \in VersionClients |-> VersionIdle]
    /\ textApi = "router"

NextVersion ==
    \/ \E v \in VersionClients : VersionStart(v)
    \/ \E v \in VersionClients : VersionStep(v)
    \/ Rotate

SpecVersion == InitVersion /\ [][NextVersion]_vars

InitAudio ==
    /\ InitChunkIdle
    /\ InitParseIdle
    /\ InitSystem
    /\ textApi \in {"router", "external"}

NextAudio ==
    \/ \E a \in AudioProcs : AudioStart(a)
    \/ \E a \in AudioProcs : AudioStep(a)
    \/ TextStep(InternalText)
    \/ Rotate

SpecAudio == InitAudio /\ [][NextAudio]_vars

Init ==
    /\ InitChunkIdle
    /\ InitParseIdle
    /\ InitSystem
    /\ textApi \in {"router", "external"}

Next ==
    \/ \E p \in TextClients : TextStart(p)
    \/ \E p \in TextProcs : TextStep(p)
    \/ \E a \in AudioProcs : AudioStart(a)
    \/ \E a \in AudioProcs : AudioStep(a)
    \/ \E v \in VersionClients : VersionStart(v)
    \/ \E v \in VersionClients : VersionStep(v)
    \/ Rotate
    \/ Split
    \/ ParseHtml
    \/ FlattenParsed
    \/ BuildNarration

Spec == Init /\ [][Next]_vars

(***************************************************************************)
(* Properties.                                                             *)
(***************************************************************************)
\* C1 (SpecAudio): an audio request that fails at staging, concatenation or
\* upload after a local file of the invocation was created has none of the
\* files it created left in the temp directory when the 500 is sent.
C1_CleanupOnFailure ==
    \A a \in AudioProcs :
        (/\ areq[a].pc = "done"
         /\ areq[a].resp.status = 500
         /\ areq[a].failedAt \in {"stage", "concat", "upload"}
         /\ areq[a].created # {})
        => areq[a].leak = {}

\* C2 (SpecChunk): every chunk splitTextIntoChunks returns is at most limit
\* characters long.
C2_ChunksWithinLimit ==
    splitDone => \A i \in DOMAIN outChunks : Len(outChunks[i]) <= inLimit

\* C3 (SpecAudio): the audio object is uploaded only after every chunk was
\* synthesized and staged and, for more than one chunk, concatenated; a
\* request with a failed synthesis uploads nothing and ends with a 500.
C3_UploadOnlyAfterAll ==
    \A a \in AudioProcs :
        LET r == areq[a]
        IN  /\ (r.pc = "upload" \/ r.nUpload > 0 \/ r.wrote)
               => /\ r.nSynth = Len(r.chunks)
                  /\ \A i \in DOMAIN r.chunks : r.synth[i] = "ok" /\ r.save[i] = "ok"
                  /\ DOMAIN r.save = DOMAIN r.chunks
                  /\ (Len(r.chunks) > 1 => r.concatOk)
            /\ (r.pc # "idle" /\ ~r.held /\ AudioKey(r.ref) \in DOMAIN s3) => r.wrote
            /\ r.synthFailed
               => /\ r.nUpload = 0
                  /\ ~r.wrote
                  /\ r.pc = "done"
                  /\ r.resp.status = 500

\* a request of several chunks has written the audio object
C3_Witness ==
    \E a \in AudioProcs : areq[a].wrote /\ Len(areq[a].chunks) > 1

ServedFromCache(r) ==
    /\ r.nLanding = 0
    /\ r.nChapter = 0
    /\ r.pc = "done"
       => /\ r.resp.status = 200
          /\ r.resp.kind = "cached"
          /\ r.resp.chapter = s3[TextKey(r.ref)].chapter

\* C5 as stated (SpecText): a request whose key the cache holds is answered
\* with the cached value, without landing fetch or chapter fetch.
C5_CacheHeldNoUpstream ==
    \A p \in TextClients : treq[p].held => ServedFromCache(treq[p])

\* C5 as amended (SpecText): a request whose key the cache holds, and whose
\* existence check and read do not fail with a storage error, is answered
\* with the cached value, without landing fetch or chapter fetch.
C5_CacheHitNoUpstream ==
    \A p \in TextClients :
        (treq[p].held /\ treq[p].check # "error" /\ treq[p].read # "error")
        => /\ ServedFromCache(treq[p])
           /\ treq[p].pc \in {"cacheCheck", "cacheRead", "done"}

\* a request has been answered from the cache
C5_Witness ==
    \E p \in TextClients :
        /\ treq[p].held
        /\ treq[p].pc = "done"
        /\ treq[p].read = "ok"
        /\ treq[p].resp.kind = "cached"

\* the second of two successful requests in sequence for one reference that
\* was not cached before the first
SecondOfTwo(r) ==
    /\ r.pc = "done"
    /\ r.calls >= 2
    /\ r.prev.ref = r.ref
    /\ ~r.prev.held
    /\ r.prev.status = 200
    /\ r.resp.status = 200

\* C6 as stated (SpecText): two requests in sequence for the same reference
\* make exactly one chapter fetch in total.
C6_TwoCallsOneFetch ==
    \A p \in TextClients :
        SecondOfTwo(treq[p]) => treq[p].prev.nChapter + treq[p].nChapter = 1

\* C6 as amended (SpecText): two requests in sequence for the same
\* reference make exactly one chapter fetch in total, the second being a
\* cache hit, when the first fetched the chapter at its first attempt and
\* wrote it to the cache and the cache check and read of the second did not
\* fail.
C6_SecondCallIsHit ==
    \A p \in TextClients :
        (/\ SecondOfTwo(treq[p])
         /\ treq[p].prev.nChapter = 1
         /\ treq[p].prev.wrote
         /\ treq[p].check # "error"
         /\ treq[p].read # "error")
        => /\ treq[p].nChapter = 0
           /\ treq[p].nLanding = 0
           /\ treq[p].resp.kind = "cached"
           /\ treq[p].prev.nChapter + treq[p].nChapter = 1

\* a second request has been answered from what the first one wrote
C6_Witness ==
    \E p \in TextClients :
        /\ SecondOfTwo(treq[p])
        /\ treq[p].prev.nChapter = 1
        /\ treq[p].prev.wrote
        /\ treq[p].resp.kind = "cached"

\* what an audio cache hit is: the URL of the stored object as the response
\* and no text request, synthesis call, local file or upload
AudioServedFromCache(r) ==
    /\ r.pc = "done"
    /\ r.resp.status = 200
    /\ r.resp.url = PublicUrl(AudioKey(r.ref))
    /\ r.nText = 0
    /\ r.nSynth = 0
    /\ r.created = {}
    /\ r.nUpload = 0
    /\ ~r.wrote

C8_AudioSucceeds ==
    \A a \in AudioProcs :
        (/\ areq[a].pc = "done"
         /\ areq[a].check = "miss"
         /\ areq[a].ref.abbr \in bibleVersionMap
         /\ areq[a].textStatus = 200
         /\ areq[a].textKind = "chapter"
         /\ ~areq[a].synthFailed
         /\ areq[a].failedAt \notin {"synth", "stage", "concat", "upload"})
        => /\ areq[a].resp.status = 200
           /\ areq[a].resp.url = PublicUrl(AudioKey(areq[a].ref))

\* C9 (SpecAudio): the files handed to concatenateAudioFiles are, position
\* by position, the audio of the chunks in narration order, and so is the
\* concatenated file, whatever the order in which the synthesis calls and
\* the writes ended.
C9_ChunkOrder ==
    \A a \in AudioProcs :
        LET r == areq[a]
        IN  /\ r.pc \in {"stage", "concat", "upload"}
               => \A i \in DOMAIN r.chunks : r.speechifyResults[i] = Speech(r.chunks[i])
            /\ r.nConcat > 0
               => r.concatInput = [i \in DOMAIN r.chunks |-> Speech(r.chunks[i])]
            /\ (r.pc = "upload" /\ r.finalAudioPath \in DOMAIN tmpFiles)
               => tmpFiles[r.finalAudioPath].audio = r.chunks

\* three or more chunks were concatenated after the synthesis calls and the
\* writes ended in another order than that of the chunks
C9_Witness ==
    \E a \in AudioProcs :
        /\ areq[a].concatOk
        /\ Len(areq[a].chunks) >= 3
        /\ areq[a].synthOrder = "other"
        /\ areq[a].saveOrder = "other"

\* C10 (SpecText): a request with an abbreviation outside bibleVersionMap or
\* a language outside langCodeMap makes no landing fetch and no chapter
\* fetch and is answered with a 4xx status.
C10_RejectedBeforeUpstream ==
    \A p \in TextClients :
        (treq[p].pc # "idle"
         /\ (treq[p].ref.abbr \notin bibleVersionMap \/ treq[p].ref.lang \notin langCodeMap))
        => /\ treq[p].nLanding = 0
           /\ treq[p].nChapter = 0
           /\ treq[p].pc = "done" => treq[p].resp.status \in 400..499

\* the failures of a first attempt that are not the 404 of a stale token
OtherFailures == {"net", "shape", "h503", "nomatch"}

\* the status sent for a failure: error.response.status, 500 without one
SurfacedStatus(o) == IF ErrorStatus(o) # 0 THEN ErrorStatus(o) ELSE 500

C12_RetryErrorSurfaced ==
    \A p \in TextClients :
        (/\ treq[p].pc = "done"
         /\ treq[p].first = "h404"
         /\ treq[p].resp.kind = "error")
        => \/ /\ treq[p].nChapter = 2
              /\ treq[p].resp.attempt = 2
              /\ treq[p].resp.cause = treq[p].last
              /\ treq[p].resp.status = SurfacedStatus(treq[p].last)
           \/ /\ treq[p].nChapter = 1
              /\ treq[p].resp.cause = "refresh failed"
              /\ treq[p].resp.status = 500

\* a retry has failed otherwise than the first attempt did
C12_Witness ==
    \E p \in TextClients :
        /\ treq[p].pc = "done"
        /\ treq[p].first = "h404"
        /\ treq[p].nChapter = 2
        /\ treq[p].last = "h503"
        /\ treq[p].resp.status = 503

\* C13 (SpecAudio): an audio request whose cache existence check failed
\* with a storage error goes on as on a miss: it requests the text, and it
\* is not answered with an error because of the check.
C13_CheckFailureFallsBack ==
    \A a \in AudioProcs :
        areq[a].check = "error"
        => /\ areq[a].failedAt # "check"
           /\ areq[a].pc = "done" => areq[a].nText > 0

\* C14 (SpecText): a request whose chapter fetch succeeded is answered 200
\* with the chapter it built, once, whether or not the temp file write and
\* the upload to the cache succeeded.
C14_CacheWriteFailureSwallowed ==
    \A p \in TextClients :
        /\ (treq[p].pc = "done" /\ treq[p].last = "ok")
           => /\ treq[p].resp.status = 200
              /\ treq[p].resp.kind = "fresh"
              /\ treq[p].resp.chapter = treq[p].chapter
              /\ treq[p].nResp = 1
        /\ treq[p].pc \in {"built", "upload"} => treq[p].last = "ok" /\ treq[p].nResp = 0

\* a chapter was fetched, nothing was written to the cache, and the chapter
\* was sent
C14_Witness ==
    \E p \in TextClients :
        /\ treq[p].pc = "done"
        /\ treq[p].last = "ok"
        /\ ~treq[p].wrote
        /\ TextKey(treq[p].ref) \notin DOMAIN s3
        /\ treq[p].resp.status = 200
        /\ treq[p].resp.chapter = treq[p].chapter

\* C15 (SpecAudio): a request with a failed synthesis call has staged no
\* file: no write was issued and the temp directory holds no file of it, at
\* the error response and ever after.
C15_NoStagedFileAfterSynthFailure ==
    \A a \in AudioProcs :
        areq[a].synthFailed
        => /\ areq[a].created = {}
           /\ areq[a].save = <<>>
           /\ areq[a].leak = {}
           /\ \A i \in DOMAIN areq[a].chunks : Mp3Path(a, areq[a], i) \notin DOMAIN tmpFiles
           /\ areq[a].pc = "done"
           /\ areq[a].resp.status = 500

\* chunk 2 of 3 failed after chunk 3 and chunk 1 had been synthesized
C15_Witness ==
    \E a \in AudioProcs :
        /\ areq[a].pc = "done"
        /\ areq[a].synth = <<"ok", "fail", "ok">>
        /\ areq[a].synthOrder = "other"

\* the whitespace-delimited tokens of a text
Tokens(t) == SelectSeq(SplitWhitespace(t), LAMBDA w : w # <<>>)

\* a text with runs of whitespace collapsed to one space and none at its ends
Normalized(t) == Join(Tokens(t), <<" ">>)

\* no token of the text is longer than the limit
TokensFit(t, limit) == \A i \in DOMAIN Tokens(t) : Len(Tokens(t)[i]) <= limit

\* C16 (SpecChunk): when no token of the text is longer than the limit, the
\* chunks joined with single spaces are the whitespace-normalized text.
C16_JoinIsNormalizedText ==
    (splitDone /\ TokensFit(inText, inLimit))
    => Join(outChunks, <<" ">>) = Normalized(inText)

\* the slices of the word are consecutive chunks of the result
SlicedIn(word, limit, chunks) ==
    LET slices == SliceWord(word, limit)
    IN  \E k \in 0..(Len(chunks) - Len(slices)) :
           SubSeq(chunks, k + 1, k + Len(slices)) = slices

\* C17 (SpecChunk): every word of the text longer than the limit appears in
\* the result as its slices of limit characters, the last one holding the
\* remainder, whether or not a word precedes it.
C17_LongWordIsSliced ==
    splitDone
    => \A i \in DOMAIN Tokens(inText) :
          Len(Tokens(inText)[i]) > inLimit
          => SlicedIn(Tokens(inText)[i], inLimit, outChunks)

\* the first word of a chunk
FirstWord(chunk) == SplitWhitespace(chunk)[1]

\* C18 (SpecChunk): for a text without a token longer than the limit, the
\* packing is greedy: no chunk is empty or longer than the limit, the first
\* word of every chunk but the first would not have fit into the chunk
\* before it with one space, and a word of exactly limit characters is a
\* chunk of its own.
C18_GreedyPacking ==
    (splitDone /\ TokensFit(inText, inLimit))
    => /\ \A k \in DOMAIN outChunks :
             /\ outChunks[k] # <<>>
             /\ Len(outChunks[k]) <= inLimit
       /\ \A k \in 1..(Len(outChunks) - 1) :
             Len(outChunks[k]) + 1 + Len(FirstWord(outChunks[k + 1])) > inLimit
       /\ \A i \in DOMAIN Tokens(inText) :
             Len(Tokens(inText)[i]) = inLimit
             => \E k \in DOMAIN outChunks : outChunks[k] = Tokens(inText)[i]

\* split("abcdefghij klmnop", 10) has returned ["abcdefghij", "klmnop"]
C18_Witness ==
    /\ splitDone
    /\ inText = ExampleText
    /\ inLimit = SPEECHIFY_CHAR_LIMIT
    /\ outChunks = <<SubSeq(ExampleText, 1, 10), SubSeq(ExampleText, 12, 17)>>

\* C19 (SpecChunk): the empty text yields no chunk, whatever the limit.
C19_EmptyTextNoChunks ==
    (splitDone /\ inText = <<>>) => outChunks = <<>>

\* the empty text has been split with the largest of the small limits
C19_Witness ==
    /\ splitDone
    /\ inText = <<>>
    /\ inLimit = MaxLimit
    /\ outChunks = <<>>

\* C20 (SpecText): the stored token starts unset (0).  A getBuildId call
\* with a token stored hands that token to the request without a landing
\* fetch and leaves it stored; with no token stored it issues one landing
\* fetch.  When that fetch yields a BUILD_ID the token is stored and handed
\* to the request; when the fetch fails or the page has no BUILD_ID the
\* token stays unset and the call fails into the catch block.
C20_TokenResolver ==
    /\ currentBuildId = 0
    /\ [][\A p \in TextClients :
            /\ (treq[p].pc = "resolve" /\ treq'[p] # treq[p])
               => /\ currentBuildId' = currentBuildId
                  /\ IF currentBuildId # 0
                     THEN /\ treq'[p].pc = "fetch"
                          /\ treq'[p].buildId = currentBuildId
                          /\ treq'[p].nLanding = treq[p].nLanding
                     ELSE /\ treq'[p].pc = "landing"
                          /\ treq'[p].nLanding = treq[p].nLanding + 1
            /\ (treq[p].pc = "landing" /\ treq'[p] # treq[p])
               => /\ currentBuildId = 0
                  /\ treq'[p].nLanding = treq[p].nLanding + (IF treq'[p].pc = "refresh" THEN 1 ELSE 0)
                  /\ \/ /\ treq'[p].pc = "fetch"
                        /\ currentBuildId' # 0
                        /\ treq'[p].buildId = currentBuildId'
                     \/ /\ treq'[p].pc \in {"done", "refresh"}
                        /\ treq'[p].pc = "done" => treq'[p].resp.kind = "error"
                        /\ currentBuildId' = 0]_vars

\* a failed resolution has ended a request with the token still unset, and
\* the next request of the client was handed the token its own landing
\* fetch stored
C20_Witness ==
    \E p \in TextClients :
        /\ treq[p].prev.status = 500
        /\ treq[p].prev.nChapter = 0
        /\ treq[p].pc = "fetch"
        /\ treq[p].nLanding = 1
        /\ treq[p].buildId = currentBuildId
        /\ currentBuildId # 0

\* C21 (SpecText): once a request whose first chapter fetch returned 404
\* has finished, the stored token is unset or was stored by a landing fetch
\* issued after the last 404 of the request.
C21_StaleTokenInvalidated ==
    \A p \in TextClients :
        (treq[p].pc = "done" /\ treq[p].first = "h404")
        => \/ currentBuildId = 0
           \/ treq[p].nReplace = 1 /\ treq[p].last # "h404"

\* the spans of a paragraph the parser keeps (line 168)
ContentSpans(spans) == SelectSeq(spans, HasContent)

\* the indices at which a run of spans with one usfm starts
RunStarts(spans) ==
    {i \in DOMAIN spans : i = 1 \/ spans[i].usfm # spans[i - 1].usfm}

\* the index at which the run starting at s ends
RunEnd(spans, s) ==
    CHOOSE e \in s..Len(spans) :
        /\ \A j \in s..e : spans[j].usfm = spans[s].usfm
        /\ e = Len(spans) \/ spans[e + 1].usfm # spans[s].usfm

RECURSIVE Concat(_)
Concat(seqs) == IF seqs = <<>> THEN <<>> ELSE Head(seqs) \o Concat(Tail(seqs))

\* the verse the spans s..e are expected to become
RunVerse(spans, s, e) ==
    [number |-> IF \E j \in s..e : ValidNumber(CurrentNumber(spans[j].label))
                THEN CurrentNumber(spans[CHOOSE j \in s..e :
                        /\ ValidNumber(CurrentNumber(spans[j].label))
                        /\ \A k \in s..(j - 1) : ~ValidNumber(CurrentNumber(spans[k].label))].label)
                ELSE 0,
     usfm |-> spans[s].usfm,
     text |-> Join(SelectSeq([j \in 1..(e - s + 1) |-> spans[s + j - 1].text],
                             LAMBDA t : t # <<>>), <<" ">>),
     notes |-> Concat([j \in 1..(e - s + 1) |-> spans[s + j - 1].notes])]

\* the markup is one paragraph-like element, and the parser has run
OneParagraphParsed ==
    /\ parsePc # "html"
    /\ Len(html) = 1
    /\ html[1].class \in {"p", "q"}

\* the verses of the only block of the parsed content
OnlyBlockVerses == IF parsedContent = <<>> THEN <<>> ELSE parsedContent[1].verses

\* C22 as stated (SpecParse): every run of consecutive spans of a paragraph
\* with one usfm becomes exactly one verse.
C22_EveryRunOneVerse ==
    OneParagraphParsed
    => Len(OnlyBlockVerses) = Cardinality(RunStarts(html[1].spans))

\* C22 (SpecParse): of the spans of a paragraph that carry a text, a note or
\* a valid number, every run of consecutive spans with one usfm becomes
\* exactly one verse: its text is the non-empty texts joined by single
\* spaces, its notes are the notes in span order, its number is the first
\* valid number of the run, null when there is none.  Spans that carry
\* nothing are dropped, and a paragraph of such spans is not emitted.
C22_MergeWithinBlock ==
    OneParagraphParsed
    => LET spans == ContentSpans(html[1].spans)
       IN  /\ Len(parsedContent) = (IF spans = <<>> THEN 0 ELSE 1)
           /\ Len(OnlyBlockVerses) = Cardinality(RunStarts(spans))
           /\ \A s \in RunStarts(spans) :
                OnlyBlockVerses[Cardinality({t \in RunStarts(spans) : t <= s})]
                    = RunVerse(spans, s, RunEnd(spans, s))

\* two spans of one verse, the number on the second, merged into one verse
C22_Witness ==
    /\ OneParagraphParsed
    /\ Len(html[1].spans) = 2
    /\ html[1].spans[1] = VerseSpan("GEN.1.1", "", <<"a">>, <<"f">>)
    /\ html[1].spans[2] = VerseSpan("GEN.1.1", "2", <<"b">>, <<"x">>)
    /\ OnlyBlockVerses = <<[number |-> 2, usfm |-> "GEN.1.1",
                            text |-> <<"a", " ", "b">>, notes |-> <<"f", "x">>]>>

\* the paragraph-like nodes of a content array
BlockNodes(content) ==
    {i \in DOMAIN content : content[i].type \in {"paragraph", "quote_line"}}

\* the children of div.chapter that hold a span with content
FilledDivs(els) ==
    {i \in DOMAIN els : els[i].class \in {"p", "q"} /\ ContentSpans(els[i].spans) # <<>>}

\* C23 (SpecParse): the parsed content is the parsed content of each child
\* of div.chapter on its own, in order: every paragraph-like child with
\* content yields a block of its own, so the verses on the two sides of a
\* heading or reference stay separate, whatever their usfm.
C23_NoMergeAcrossElements ==
    parsePc # "html"
    => /\ parsedContent = Concat([i \in DOMAIN html |-> ParseBibleHtmlToJson(<<html[i]>>)])
       /\ Cardinality(BlockNodes(parsedContent)) = Cardinality(FilledDivs(html))
       /\ \A i \in DOMAIN html :
            html[i].class \in {"s", "r"}
            => \E k \in DOMAIN parsedContent :
                 /\ parsedContent[k].type \in {"heading", "reference"}
                 /\ Cardinality(BlockNodes(parsedContent) \cap 1..k)
                      = Cardinality(FilledDivs(html) \cap 1..i)

\* two fragments of GEN.1.1 with a heading between them: two verses
C23_Witness ==
    /\ parsePc = "flattened"
    /\ html = <<VerseDiv("p", <<VerseSpan("GEN.1.1", "1", <<"a">>, <<>>)>>),
                HeadingDiv("s", <<"H">>),
                VerseDiv("q", <<VerseSpan("GEN.1.1", "", <<"b">>, <<"f">>)>>)>>
    /\ Len(finalContent) = 3
    /\ finalContent[1].usfm = "GEN.1.1" /\ finalContent[1].text = <<"a">>
    /\ finalContent[2].type = "heading"
    /\ finalContent[3].usfm = "GEN.1.1" /\ finalContent[3].text = <<"b">>

\* the headings of a content array
Headings(content) == {i \in DOMAIN content : content[i].type = "heading"}

\* the nodes that are narrated after the title and the first heading
Narrated(content) ==
    SelectSeq([i \in DOMAIN content |-> i],
              LAMBDA i : /\ content[i].text # <<>>
                         /\ content[i].type # "reference"
                         /\ \/ content[i].type # "heading"
                            \/ \E j \in Headings(content) : j < i)

\* C24 (SpecParse): the narration text is the lines, joined by newlines: the
\* title followed by a colon; the text of the first heading followed by
\* three dots, when there is a heading and it has a text; then the text of
\* every node with a text that is neither a reference nor the first
\* heading, in content order.
C24_NarrationOrder ==
    parsePc = "narrated"
    => LET content == finalContent
           heads == Headings(content)
           rest == Narrated(content)
       IN  fetchedText =
             Join(<<<<"G", ":">>>>
                  \o (IF \E i \in heads : (\A j \in heads : i <= j) /\ content[i].text # <<>>
                      THEN <<content[CHOOSE i \in heads : \A j \in heads : i <= j].text
                                \o <<".", ".", ".">>>>
                      ELSE <<>>)
                  \o [k \in DOMAIN rest |-> content[rest[k]].text],
                  <<"\n">>)

\* a verse, a reference and a heading: the heading is narrated before the
\* verse and once, the reference is not narrated
C24_Witness ==
    /\ parsePc = "narrated"
    /\ html = <<VerseDiv("p", <<VerseSpan("GEN.1.1", "1", <<"a">>, <<>>)>>),
                HeadingDiv("r", <<"R">>),
                HeadingDiv("s", <<"H">>)>>
    /\ fetchedText = <<"G", ":", "\n", "H", ".", ".", ".", "\n", "a">>

\* C25 (SpecAudio): an audio request whose language is not "es" in any
\* letter case is answered 400 at once: no cache check, no text request, no
\* synthesis call, no local file and no upload; "ES" is not rejected.
C25_UnsupportedLanguageRejected ==
    \A a \in AudioProcs :
        /\ (areq[a].pc # "idle" /\ ToLowerCase(areq[a].ref.lang) # "es")
           => /\ areq[a].pc = "done"
              /\ areq[a].resp.status = 400
              /\ areq[a].nResp = 1
              /\ areq[a].check = "none"
              /\ areq[a].nText = 0
              /\ areq[a].nSynth = 0
              /\ areq[a].created = {}
              /\ areq[a].nConcat = 0
              /\ areq[a].nUpload = 0
              /\ ~areq[a].wrote
        /\ (areq[a].pc # "idle" /\ areq[a].ref.lang = "ES")
           => areq[a].resp.cause # "unsupported language"

\* a request for "en" has been answered 400
C25_Witness ==
    \E a \in AudioProcs :
        /\ areq[a].pc = "done"
        /\ areq[a].ref.lang = "en"
        /\ areq[a].ref.abbr = "RVR1960"
        /\ areq[a].resp.status = 400
        /\ areq[a].resp.cause = "unsupported language"

\* C26 as stated (SpecAudio): an audio request whose abbreviation is not in
\* the version table is answered with a 4xx status, and no synthesis call
\* is made.  The text route has answered the internal request with 404.
C26_UnknownVersionIsClientError ==
    \A a \in AudioProcs :
        (/\ areq[a].pc = "done"
         /\ textApi = "router"
         /\ areq[a].textStatus = 404
         /\ areq[a].ref.abbr # ""
         /\ areq[a].ref.abbr \notin bibleVersionMap)
        => /\ areq[a].resp.status \in 400..499
           /\ areq[a].nSynth = 0

\* C27 (SpecAudio): when concatenateAudioFiles has settled, none of its
\* input files is left, whether ffmpeg ended or failed; after 'end' the
\* merged output is the only file of the request in the temp directory and
\* holds the audio of the inputs in order.
C27_ConcatDeletesInputs ==
    \A a \in AudioProcs :
        (areq[a].nConcat > 0 /\ areq[a].pc # "concat")
        => /\ areq[a].concatLeft = {}
           /\ \A i \in DOMAIN areq[a].savedPaths : areq[a].savedPaths[i] \notin DOMAIN tmpFiles
           /\ (areq[a].pc = "upload")
              => /\ areq[a].concatOk
                 /\ areq[a].created \cap DOMAIN tmpFiles = {ConcatPath(areq[a].ref)}
                 /\ tmpFiles[ConcatPath(areq[a].ref)].audio = Concat(areq[a].concatInput)
           /\ (~areq[a].concatOk)
              => areq[a].pc = "done" /\ areq[a].resp.status = 500

\* ffmpeg failed on two or more staged files
C27_Witness ==
    \E a \in AudioProcs :
        /\ areq[a].pc = "done"
        /\ areq[a].nConcat = 1
        /\ ~areq[a].concatOk
        /\ areq[a].failedAt = "concat"
        /\ Len(areq[a].savedPaths) >= 2
        /\ areq[a].concatLeft = {}

\* C28 (SpecAudio): when uploadToS3 has settled, its local file is gone,
\* whether the upload succeeded or failed: the final audio file of the audio
\* route and the JSON file of the text route.
C28_UploadDeletesSource ==
    /\ \A a \in AudioProcs :
          areq[a].nUpload > 0
          => /\ areq[a].uploadLeft = {}
             /\ areq[a].finalAudioPath \notin DOMAIN tmpFiles
    /\ \A p \in TextProcs :
          treq[p].pc = "done" => JsonPath(p, treq[p]) \notin DOMAIN tmpFiles

\* the upload of the final audio file failed
C28_Witness ==
    \E a \in AudioProcs :
        /\ areq[a].pc = "done"
        /\ areq[a].nUpload = 1
        /\ ~areq[a].wrote
        /\ areq[a].failedAt = "upload"
        /\ areq[a].uploadLeft = {}

\* the request names the chapter of StoredRef, in any letter case of the
\* book and with the chapter as a string or as a number
NamesStoredChapter(ref) ==
    /\ ref.abbr = StoredRef.abbr
    /\ ToUpperCase(ref.book) = StoredRef.book
    /\ ChapterToString(ref.chapter) = StoredRef.chapter

\* C29 (SpecAudio): requests that differ in the letter case of the book, and
\* audio requests that give the chapter as a number or as a string, use one
\* text key and one audio key: a hit is the object stored for GEN/1, a miss
\* means that no object is stored for GEN/1, and what the request writes is
\* stored for GEN/1.
C29_KeysFromNormalizedReference ==
    /\ \A a \in AudioProcs :
          (areq[a].pc # "idle" /\ NamesStoredChapter(areq[a].ref))
          => /\ AudioKey(areq[a].ref) = AudioKey(StoredRef)
             /\ TextKey(UrlRef(areq[a].ref)) = TextKey(StoredRef)
             /\ TextWriteKey(UrlRef(areq[a].ref)) = TextKey(StoredRef)
    /\ \A a \in AudioProcs :
          (areq[a].pc # "idle" /\ NamesStoredChapter(areq[a].ref))
          => /\ areq[a].check = "hit"
                => /\ AudioKey(StoredRef) \in DOMAIN s3
                   /\ areq[a].resp.url = PublicUrl(AudioKey(StoredRef))
             /\ (areq[a].check = "miss" /\ ~areq[a].wrote)
                => AudioKey(StoredRef) \notin DOMAIN s3
             /\ areq[a].wrote => AudioKey(StoredRef) \in DOMAIN s3
    /\ \A p \in TextProcs :
          (treq[p].pc # "idle" /\ NamesStoredChapter(treq[p].ref))
          => /\ treq[p].check = "hit" => TextKey(StoredRef) \in DOMAIN s3
             /\ (treq[p].check = "miss" /\ ~treq[p].wrote)
                => TextKey(StoredRef) \notin DOMAIN s3
             /\ treq[p].wrote => TextKey(StoredRef) \in DOMAIN s3

\* a request for book "gen" is answered from the audio stored for GEN
C29_Witness ==
    \E a \in AudioProcs :
        /\ areq[a].pc = "done"
        /\ areq[a].ref.book = "gen"
        /\ areq[a].check = "hit"
        /\ areq[a].resp.status = 200
        /\ areq[a].resp.url = PublicUrl(AudioKey(StoredRef))

\* C30 as stated, for the audio route (SpecAudio): a successful response
\* carries audio_url under a top-level data field, when it is answered from
\* the cache and when the audio was generated.
C30_AudioUrlUnderData ==
    \A a \in AudioProcs :
        (areq[a].pc = "done" /\ areq[a].resp.status = 200)
        => areq[a].resp.body = "data"

C32_PayloadCarriesResolvedVoice ==
    \A a \in AudioProcs :
        \A i \in DOMAIN areq[a].payloads :
            /\ areq[a].payloads[i].paragraphChunks = <<areq[a].chunks[i]>>
            /\ areq[a].payloads[i].voiceParams.name = VoiceName(areq[a].ref.lang)
            /\ areq[a].payloads[i].voiceParams.languageCode = LanguageCode(areq[a].ref.lang)

\* the number of entries a node of the parsed content is flattened to
EntriesOf(node) == IF node.type \in {"heading", "reference"} THEN 1 ELSE Len(node.verses)

RECURSIVE EntriesBefore(_, _)
\* the number of entries the nodes before node i are flattened to
EntriesBefore(content, i) ==
    IF i <= 1 THEN 0
    ELSE EntriesBefore(content, i - 1) + EntriesOf(content[i - 1])

\* C33 (SpecParse): the flattened content has one entry per heading, per
\* reference and per verse of the parsed content and no other; a heading or
\* reference is the node itself, at the position after the entries of the
\* nodes before it; the entries of a block are its verses, in verse order,
\* with their number, usfm, text and notes.
C33_FlatteningPreservesOrder ==
    parsePc \in {"flattened", "narrated"}
    => /\ Len(finalContent) = EntriesBefore(parsedContent, Len(parsedContent) + 1)
       /\ \A i \in DOMAIN parsedContent :
            LET at == EntriesBefore(parsedContent, i)
                node == parsedContent[i]
            IN  IF node.type \in {"heading", "reference"}
                THEN finalContent[at + 1] = node
                ELSE \A k \in DOMAIN node.verses :
                        /\ finalContent[at + k].type = "verse"
                        /\ finalContent[at + k].number = node.verses[k].number
                        /\ finalContent[at + k].usfm = node.verses[k].usfm
                        /\ finalContent[at + k].text = node.verses[k].text
                        /\ finalContent[at + k].notes = node.verses[k].notes

\* a paragraph of two verses is flattened to two entries
C33_Witness ==
    /\ parsePc = "flattened"
    /\ Len(parsedContent) = 1
    /\ Len(parsedContent[1].verses) = 2
    /\ Len(finalContent) = 2
    /\ finalContent[1].usfm = "GEN.1.1" /\ finalContent[1].text = <<"a">>
    /\ finalContent[2].usfm = "GEN.1.2" /\ finalContent[2].text = <<"b">>

\* C34 (SpecToken): while the upstream keeps its BUILD_ID and serves its
\* landing page, once the overlapping requests have finished and one of
\* them has resolved or refreshed the token, the stored token is the
\* upstream's BUILD_ID, in every interleaving of their steps.
C34_TokenConverges ==
    (/\ \A p \in ConcurrentClients : treq[p].pc \in {"done", "exited"}
     /\ \E p \in ConcurrentClients : treq[p].nLanding > 0)
    => currentBuildId = upstreamBuild

\* both requests found the stored token stale and refreshed it while the
\* other was in flight
C34_Witness ==
    /\ \A p \in ConcurrentClients :
          /\ treq[p].pc = "done"
          /\ treq[p].first = "h404"
          /\ treq[p].nReplace = 1
          /\ treq[p].resp.status = 200
    /\ currentBuildId = upstreamBuild

\* the request has staged every chunk and gone on
StagedAll(r) == r.pc \in {"concat", "upload"} \/ r.nConcat > 0 \/ r.nUpload > 0

\* C35 (SpecAudio): concatenateAudioFiles is called at most once, only when
\* more than one chunk file was staged, and then with the audio of every
\* chunk in chunk order; a request that staged one file uploads that file
\* and never calls it; a request that staged more uploads the output of the
\* concatenation.
C35_ConcatOnlyForSeveralFiles ==
    \A a \in AudioProcs :
        /\ areq[a].nConcat <= 1
        /\ areq[a].nConcat = 1
           => /\ Len(areq[a].chunks) > 1
              /\ \A i \in DOMAIN areq[a].chunks : areq[a].save[i] = "ok"
              /\ areq[a].concatInput = [i \in DOMAIN areq[a].chunks |-> Speech(areq[a].chunks[i])]
        /\ (StagedAll(areq[a]) /\ Len(areq[a].chunks) = 1)
           => /\ areq[a].nConcat = 0
              /\ areq[a].finalAudioPath = Mp3Path(a, areq[a], 1)
        /\ (StagedAll(areq[a]) /\ Len(areq[a].chunks) > 1)
           => /\ areq[a].nConcat = 1
              /\ areq[a].pc = "upload" \/ areq[a].nUpload > 0
                   => areq[a].finalAudioPath = ConcatPath(areq[a].ref)

\* the only staged file has been uploaded, without a concatenation
C35_Witness ==
    \E a \in AudioProcs :
        /\ areq[a].pc = "done"
        /\ Len(areq[a].chunks) = 1
        /\ areq[a].nUpload = 1
        /\ areq[a].wrote
        /\ areq[a].nConcat = 0
        /\ areq[a].resp.status = 200

\* C36 as stated (SpecPair): of two overlapping audio requests for one
\* chapter, each uploads a file it wrote itself, and, none of its own calls
\* having failed, each is answered with the URL of the audio.
C36_NoSharedLocalFile ==
    \A a \in ConcurrentAudio :
        /\ areq[a].pc = "upload"
           => /\ areq[a].finalAudioPath \in DOMAIN tmpFiles
              /\ tmpFiles[areq[a].finalAudioPath].owner = a
        /\ areq[a].pc = "done" => areq[a].resp.status = 200

\* C37 (SpecVersion): a version-info request that follows a request of the
\* same client for the same language and version which fetched the data and
\* wrote it to the cache, and whose own cache calls did not fail, is answered
\* from the cache without a fetch from the upstream.
C37_SecondRequestFromCache ==
    \A v \in VersionClients :
        (/\ vreq[v].pc = "done"
         /\ vreq[v].prev.lang = vreq[v].lang
         /\ vreq[v].prev.abbr = vreq[v].abbr
         /\ vreq[v].prev.wrote
         /\ vreq[v].check # "error"
         /\ vreq[v].read # "error")
        => /\ vreq[v].kind = "cached"
           /\ vreq[v].nFetch = 0
           /\ vreq[v].nLanding = 0

\* C38 (SpecTextFair): a chapter-text request has sent no response while its
\* handler runs and exactly one once the handler has ended; the retry loop
\* is never left by its test, without a response; and every request whose
\* awaited calls settle ends.
C38_OneResponseOnEveryPath ==
    \A p \in TextClients :
        /\ [](treq[p].nResp = IF treq[p].pc = "done" THEN 1 ELSE 0)
        /\ [](treq[p].pc # "exited")
        /\ (treq[p].pc \notin {"idle", "done"}) ~> (treq[p].pc = "done")

\* a request ended by the failure of its retry, after a 404 and a refresh
C38_Witness ==
    \E p \in TextClients :
        /\ treq[p].pc = "done"
        /\ treq[p].nResp = 1
        /\ treq[p].first = "h404"
        /\ treq[p].nReplace = 1
        /\ treq[p].attempt = 2
        /\ treq[p].last \in {"h404", "shape"}
        /\ treq[p].resp.status # 200

\* C39 (SpecText): every chapter document in the bucket has a content field
\* that is a list; the error object of a failed parse is never stored.
C39_CachedContentIsList ==
    \A k \in DOMAIN s3 :
        s3[k].kind = "json" => s3[k].chapter.kind = "chapter"

\* C40 (SpecChunk): every chunk splitTextIntoChunks returns holds at least
\* one character, whatever the text and the limit.
C40_NoEmptyChunk ==
    splitDone => \A i \in 1..Len(outChunks) : Len(outChunks[i]) >= 1

\* a text that begins and ends with whitespace, so that split yields empty
\* tokens, has been split into chunks
C40_Witness ==
    /\ splitDone
    /\ Len(inText) >= 3
    /\ IsSpace(inText[1])
    /\ IsSpace(inText[Len(inText)])
    /\ Len(outChunks) >= 1

=============================================================================
